---- MODULE Spec2Model ----
(***************************************************************************)
(* Turn segmentation and WebM repair of the LangSmith observability        *)
(* server (langsmith-server.js): the POST /observability handler, the     *)
(* grace timers it arms, saveTurn and the WebM helpers it calls.           *)
(*                                                                         *)
(* Buffers are sequences of bytes; JS index i is TLA+ index i + 1.         *)
(* Strings (transcripts) are sequences of characters.  Objects with        *)
(* identity (sessions, turns) live in the heaps sessionObjs and turns and  *)
(* are referred to by their index; 0 is null.                              *)
(* The model describes the server with LangSmith tracing constructed      *)
(* (session.parentRun set), so that every await of the handlers is a point *)
(* where other handlers and timers may run.                                *)
(***************************************************************************)
EXTENDS Integers, Sequences, FiniteSets, TLC

\* ------------------------------------------------------------------ bounds
MaxEvents == 5        \* Spec: boundary events handled
MaxEnds == 1          \* Spec: session_end messages handled
MaxMsgs == 7          \* Spec: messages handled in all
MaxDataEvents == 5    \* SpecData: input events handled
MaxAudio == 2         \* SpecData: audio messages handled
MaxDataMsgs == 6      \* SpecData: messages handled in all
MaxStarts == 3        \* SpecRouting: session_start messages handled
MaxRoutingMsgs == 5   \* SpecRouting: messages handled in all
MaxClusters == 2      \* SpecWebm: clusters in a buffer
MaxLeakEvents == 2    \* SpecLeak: events a client sends
MaxLeakAudio == 1     \* SpecLeak: audio fragments a client sends
MaxLeakEnds == 2      \* SpecLeak: session_end messages handled
MaxLeakMsgs == 8      \* SpecLeak: messages handled in all
MaxFailEvents == 4    \* SpecFail: events handled
MaxFailMsgs == 6      \* SpecFail: messages handled in all
MaxFailures == 1      \* SpecFail: saveTurn invocations that throw
MaxSdkCalls == 8      \* SpecSdk: calls of the SDK functions
MaxTextEvents == 4    \* SpecText
MaxTextAudio == 1     \* SpecText
MaxTextMsgs == 5      \* SpecText
MaxPos == 4           \* SpecInt
MaxCacheEvents == 3
MaxCacheAudio == 3
MaxCacheMsgs == 6
MaxFrameEvents == 3
MaxFrameAudio == 2
MaxFrameMsgs == 4
MaxSessionCalls == 6
TickMs == 500         \* granularity of the clock

\* ------------------------------------------------------- program constants
InputGraceMs == 1500
OutputGraceMs == 500

Null == 0
Undefined == "undefined"
NaN == -1

\* ------------------------------------------------------ byte primitives

\* buffer[i] of a Node Buffer: the byte, or undefined outside the buffer
At(buffer, i) == IF i >= 0 /\ i < Len(buffer) THEN buffer[i + 1] ELSE NaN

\* buffer[i] as an operand of &: undefined counts as 0
BitsAt(buffer, i) == IF i >= 0 /\ i < Len(buffer) THEN buffer[i + 1] ELSE 0

Pow2(k) == IF k = 0 THEN 1 ELSE IF k = 1 THEN 2 ELSE IF k = 2 THEN 4
           ELSE IF k = 3 THEN 8 ELSE IF k = 4 THEN 16 ELSE IF k = 5 THEN 32
           ELSE IF k = 6 THEN 64 ELSE IF k = 7 THEN 128 ELSE 256

\* 32-bit two's complement value of the four bytes <<b3, b2, b1, b0>>
Int32Of(w) ==
    (IF w[1] >= 128 THEN w[1] - 256 ELSE w[1]) * 16777216
        + w[2] * 65536 + w[3] * 256 + w[4]

\* (value << 8) | byte on a 32-bit word held as four bytes
ShiftOr(w, byte) == <<w[2], w[3], w[4], byte>>

RECURSIVE VintWord(_, _, _, _, _)
VintWord(buffer, pos, length, i, w) ==
    IF i >= length THEN w
    ELSE VintWord(buffer, pos, length, i + 1, ShiftOr(w, At(buffer, pos + i)))

\* number of the first set bit of firstByte counted from the top, 9 if none
RECURSIVE VintLength(_, _)
VintLength(firstByte, length) ==
    IF length <= 8 /\ (firstByte \div Pow2(8 - length)) % 2 = 0
    THEN VintLength(firstByte, length + 1)
    ELSE length

\* readVint without the test of pos against the end of the buffer
readVintUnchecked(buffer, pos) ==
    LET firstByte == BitsAt(buffer, pos)
        length == VintLength(firstByte, 1)
    IN  IF length > 8 \/ pos + length > Len(buffer)
        THEN [value |-> 0, length |-> 1]
        ELSE [value |-> Int32Of(VintWord(buffer, pos, length, 1,
                            <<0, 0, 0, firstByte % Pow2(8 - length)>>)),
              length |-> length]

readVint(buffer, pos) ==
    IF pos >= Len(buffer) THEN [value |-> 0, length |-> 0]
    ELSE LET firstByte == BitsAt(buffer, pos)
             length == VintLength(firstByte, 1)
         IN  IF length > 8 \/ pos + length > Len(buffer)
             THEN [value |-> 0, length |-> 1]
             ELSE [value |-> Int32Of(VintWord(buffer, pos, length, 1,
                                 <<0, 0, 0, firstByte % Pow2(8 - length)>>)),
                   length |-> length]

\* A Number handed to writeUint is held as its eight base-256 digits, the
\* most significant first; NaN is the empty sequence
NaNNumber == <<>>

NumberOf(n) ==
    IF n = NaN THEN NaNNumber
    ELSE <<0, 0, 0, 0, (n \div 16777216) % 256, (n \div 65536) % 256,
           (n \div 256) % 256, n % 256>>

\* value & 0xFF: the low byte of ToInt32(value)
AndFF(value) ==
    IF value = NaNNumber THEN 0 ELSE Int32Of(SubSeq(value, 5, 8)) % 256

\* Math.floor(value / 256)
Floor256(value) ==
    IF value = NaNNumber THEN NaNNumber ELSE <<0>> \o SubSeq(value, 1, 7)

RECURSIVE FlooredTimes(_, _)
FlooredTimes(value, k) ==
    IF k = 0 THEN value ELSE FlooredTimes(Floor256(value), k - 1)

\* UintByte writing the least significant byte first
UintByteLittleEndian(value, size, i) == AndFF(FlooredTimes(value, i))

\* the byte written at offset i of a width-size field holding value: the
\* loop runs from offset size - 1 down to i
UintByte(value, size, i) == AndFF(FlooredTimes(value, size - 1 - i))

\* writeUint writing at the start of the buffer
writeUintAtStart(buffer, pos, value, size) ==
    [k \in 1..Len(buffer) |->
        IF k - 1 < size THEN UintByte(value, size, k - 1) ELSE buffer[k]]

writeUint(buffer, pos, value, size) ==
    [k \in 1..Len(buffer) |->
        IF k - 1 >= pos /\ k - 1 < pos + size
        THEN UintByte(value, size, k - 1 - pos)
        ELSE buffer[k]]

IsClusterAt(buffer, i) ==
    /\ At(buffer, i) = 31
    /\ At(buffer, i + 1) = 67
    /\ At(buffer, i + 2) = 182
    /\ At(buffer, i + 3) = 117

RECURSIVE FindCluster(_, _)
FindCluster(buffer, i) ==
    IF i >= Len(buffer) - 4 THEN -1
    ELSE IF IsClusterAt(buffer, i) THEN i
    ELSE FindCluster(buffer, i + 1)

extractWebmInitSegment(buffer) ==
    LET i == FindCluster(buffer, 0)
    IN  IF i = -1 THEN buffer ELSE SubSeq(buffer, 1, i)

\* big-endian value of the size bytes at clusterPos; NaN once a byte lies
\* outside the buffer
RECURSIVE ReadTimecode(_, _, _, _, _)
ReadTimecode(buffer, clusterPos, size, i, timecode) ==
    IF i >= size THEN timecode
    ELSE IF timecode = NaN \/ At(buffer, clusterPos + i) = NaN THEN NaN
    ELSE ReadTimecode(buffer, clusterPos, size, i + 1,
                      timecode * 256 + At(buffer, clusterPos + i))

\* one pass of the scan loop from pos on; firstTimestamp is Null-marked by -2
NoTimestamp == -2

RECURSIVE AdjustFrom(_, _, _)
AdjustFrom(result, pos, firstTimestamp) ==
    IF pos >= Len(result) - 10
    THEN [buffer |-> result,
          offset |-> IF firstTimestamp = NoTimestamp \/ firstTimestamp = NaN
                     THEN 0 ELSE firstTimestamp]
    ELSE IF ~IsClusterAt(result, pos)
    THEN AdjustFrom(result, pos + 1, firstTimestamp)
    ELSE LET clusterSize == readVint(result, pos + 4)
             idPos == pos + 4 + clusterSize.length
         IN  IF At(result, idPos) # 231
             THEN AdjustFrom(result, pos + 1, firstTimestamp)
             ELSE LET timecodeSize == readVint(result, idPos + 1)
                      clusterPos == idPos + 1 + timecodeSize.length
                      timecode == ReadTimecode(result, clusterPos,
                                               timecodeSize.value, 0, 0)
                      first == IF firstTimestamp = NoTimestamp THEN timecode
                               ELSE firstTimestamp
                      newTimecode ==
                          IF timecode = NaN \/ first = NaN THEN NaN
                          ELSE IF timecode - first > 0 THEN timecode - first
                          ELSE 0
                  IN  AdjustFrom(writeUint(result, clusterPos,
                                           NumberOf(newTimecode),
                                           timecodeSize.value),
                                 pos + 1, first)

\* adjustClusterTimestamps taking 1 as the first timestamp
adjustClusterTimestampsFromOne(buffer) == AdjustFrom(buffer, 0, 1)

\* adjustClusterTimestamps returning one byte more than it was given
adjustClusterTimestampsPadded(buffer) ==
    [AdjustFrom(buffer, 0, NoTimestamp) EXCEPT !.buffer = @ \o <<0>>]

adjustClusterTimestamps(buffer) == AdjustFrom(buffer, 0, NoTimestamp)

hasEbmlHeader(audioBuffer) ==
    /\ Len(audioBuffer) >= 4
    /\ audioBuffer[1] = 26
    /\ audioBuffer[2] = 69
    /\ audioBuffer[3] = 223
    /\ audioBuffer[4] = 163

\* makePlayableWebm without the rebase of the combined buffer
makePlayableWebmCombined(cache, sessionId, direction, audioBuffer) ==
    LET key == <<sessionId, direction>>
    IN  IF hasEbmlHeader(audioBuffer)
        THEN [buffer |-> adjustClusterTimestamps(audioBuffer).buffer,
              cache |-> IF key \in DOMAIN cache THEN cache
                        ELSE [k \in DOMAIN cache \cup {key} |->
                                 IF k = key
                                 THEN extractWebmInitSegment(audioBuffer)
                                 ELSE cache[k]]]
        ELSE IF key \in DOMAIN cache
        THEN [buffer |-> cache[key] \o audioBuffer, cache |-> cache]
        ELSE [buffer |-> audioBuffer, cache |-> cache]

\* makePlayableWebm: the returned buffer and the cache after the call
makePlayableWebm(cache, sessionId, direction, audioBuffer) ==
    LET key == <<sessionId, direction>>
        cached == key \in DOMAIN cache
    IN  IF hasEbmlHeader(audioBuffer)
        THEN [buffer |-> adjustClusterTimestamps(audioBuffer).buffer,
              cache |-> IF cached THEN cache
                        ELSE [k \in DOMAIN cache \cup {key} |->
                                 IF k = key
                                 THEN extractWebmInitSegment(audioBuffer)
                                 ELSE cache[k]]]
        ELSE IF cached
        THEN [buffer |-> adjustClusterTimestamps(cache[key] \o audioBuffer).buffer,
              cache |-> cache]
        ELSE [buffer |-> audioBuffer, cache |-> cache]


\* ------------------------------------------------------------ messages
SessionIds == {"s1", "s2"}
NoId == ""                       \* sessionId / summary.id absent (falsy)
Fragments == {"GkXfo4E=", "CQ=="}
Texts == {<<>>, <<"a">>}
Directions == {"input", "output"}

T_InStart == "input_audio_buffer.speech_started"
T_InStop == "input_audio_buffer.speech_stopped"
T_InText == "conversation.item.input_audio_transcription.completed"
T_OutStart == "output_audio_buffer.started"
T_OutText == "response.output_audio_transcript.delta"
T_OutStop == "output_audio_buffer.stopped"
T_Other == "session.created"

\* Buffer.from(chunk, "base64") on the fragments the clients send
Base64Decode(chunk) ==
    CASE chunk = "GkXfo4E=" -> <<26, 69, 223, 163, 129>>
      [] chunk = "GkXfo4I=" -> <<26, 69, 223, 163, 130>>
      [] chunk = "CQ==" -> <<9>>
      [] OTHER -> <<>>

\* req.body of POST /observability, one shape for all message types
Msg(kind, type, sessionId, text, direction, data) ==
    [kind |-> kind, type |-> type, sessionId |-> sessionId, text |-> text,
     direction |-> direction, data |-> data]

StartMsg(id) == Msg("session_start", "", id, <<>>, "", "")
EndMsg(id) == Msg("session_end", "", id, <<>>, "", "")
EventMsg(type, sessionId, text) == Msg("event", type, sessionId, text, "", "")
AudioMsg(sessionId, direction, data) ==
    Msg("audio", "", sessionId, <<>>, direction, data)
Internal(kind, direction) == Msg(kind, "", NoId, <<>>, direction, "")

\* ----------------------------------------------------------- browser SDK
\* a function object: the native one, or the k-th wrapper enable() made
Native(fn) == [fn |-> fn, wrapper |-> 0]
Wrapper(fn, k) == [fn |-> fn, wrapper |-> k]
NoFunction == [fn |-> "null", wrapper |-> 0]

\* the module variables when the SDK has been loaded (calls, lastCall,
\* created and answered are history: the calls made, the wrapper pairs
\* created, the last answer of isActive)
\* sessionData is the number of the session, Null when there is none;
\* reading holds the FileReader loads not finished yet, fetching the number
\* of realtime calls not answered yet; generated and emitted are history:
\* the session ids generated, the messages handed to emit() in order, each
\* with the session it was captured in
SdkLoaded ==
    [isEnabled |-> FALSE, OriginalRTCPeerConnection |-> NoFunction,
     originalFetch |-> NoFunction, calls |-> 0, lastCall |-> "",
     created |-> 0, answered |-> "none",
     sessionData |-> Null, reading |-> <<>>, fetching |-> 0,
     generated |-> 0, emitted |-> <<>>]

\* the globals of a page: the native RTCPeerConnection and fetch, or a
\* fetch the page has replaced before loading the SDK
Browser ==
    [RTCPeerConnection |-> Native("RTCPeerConnection"),
     fetch |-> Native("fetch")]

Browsers ==
    {Browser, [Browser EXCEPT !.fetch = Native("polyfill")]}

\* ---------------------------------------------------------------- state
VARIABLES
    sessions,          \* the Map sessions, as <<[id, obj]>> in insertion order
    sessionObjs,       \* heap of session objects
    turns,             \* heap of turn objects
    webmInitSegments,  \* the Map webmInitSegments, key <<sessionId, direction>>
    timers,            \* armed setTimeout callbacks, in arming order
    starting,          \* session_start handlers suspended at await postRun()
    drains,            \* session_end handlers suspended at an await (atEnd
                       \* is history: the slots when the message came)
    files,             \* contents of the uploads directory
    saves,             \* history: the saveTurn invocations, in order (seen:
                       \* the events the session had logged by then)
    owner,             \* history: owner[t] is the session object of turn t
    heard,             \* history: the audio messages in order, each with
                       \* the number of events its session had logged
    budget,            \* messages still to be handled, by kind and in all
    last,              \* the step taken last: message, session, turn
    given,             \* the buffer the WebM helpers are called with
    returned,          \* history: the last call of a WebM helper, its result
    failures,          \* history: the saveTurn invocations that threw
    sdk,               \* the module variables of the browser SDK
    globalThis         \* the globals of the page the SDK patches

vars == <<sessions, sessionObjs, turns, webmInitSegments, timers, starting,
          drains, files, saves, owner, heard, budget, last, given, returned,
          failures, sdk, globalThis>>

\* ------------------------------------------------------------- helpers
\* no WebM helper has been called on its own
NoCall == [fn |-> "", sessionId |-> "", direction |-> "", cache |-> <<>>,
           buffer |-> <<>>, offset |-> 0, pos |-> 0, value |-> 0,
           length |-> 0, written |-> NaNNumber, size |-> 0]

Range(seq) == {seq[i] : i \in DOMAIN seq}

RemoveAt(seq, i) == SubSeq(seq, 1, i - 1) \o SubSeq(seq, i + 1, Len(seq))

RECURSIVE ConcatChunks(_)
ConcatChunks(chunks) ==
    IF chunks = <<>> THEN <<>>
    ELSE Base64Decode(Head(chunks)) \o ConcatChunks(Tail(chunks))

Keys == {sessions[i].id : i \in DOMAIN sessions}

\* sessions.get(id): the session object, Null when absent
SessionsGet(id) ==
    IF id \in Keys
    THEN sessions[CHOOSE i \in DOMAIN sessions : sessions[i].id = id].obj
    ELSE Null

\* sessions.set(id, obj): an existing key keeps its place in the order
SessionsSet(id, obj) ==
    IF id \in Keys
    THEN [i \in DOMAIN sessions |->
             IF sessions[i].id = id THEN [id |-> id, obj |-> obj]
             ELSE sessions[i]]
    ELSE Append(sessions, [id |-> id, obj |-> obj])

SessionsDelete(id) ==
    IF id \in Keys
    THEN RemoveAt(sessions, CHOOSE i \in DOMAIN sessions : sessions[i].id = id)
    ELSE sessions

findSessionId ==
    IF sessions = <<>> THEN Undefined ELSE sessions[Len(sessions)].id

\* ResolveId falling back on the last session for an id that is not live
ResolveIdOrLast(m) ==
    IF m.sessionId \in Keys THEN m.sessionId ELSE findSessionId

\* event.sessionId || findSessionId()
ResolveId(m) == IF m.sessionId # NoId THEN m.sessionId ELSE findSessionId

Target(m) == SessionsGet(ResolveId(m))

\* Array.from(sessions.entries()).find(([_, s]) => s === session)?.[0]
SessionIdOf(o) ==
    IF \E i \in DOMAIN sessions : sessions[i].obj = o
    THEN sessions[CHOOSE i \in DOMAIN sessions : sessions[i].obj = o].id
    ELSE Undefined

NewSession(id) ==
    [dir |-> id, turnCount |-> 0,
     currentInputTurn |-> Null, currentOutputTurn |-> Null,
     pendingInputTurn |-> Null, pendingOutputTurn |-> Null,
     events |-> <<>>]

\* NextTurnId without the increment
NextTurnIdStuck(session) == session.turnCount

\* session.turnCount++ : the counter after the increment, which is the id of
\* the turn being opened
NextTurnId(session) == session.turnCount + 1

NewTurn(id, type) ==
    [id |-> id, type |-> type, audioChunks |-> <<>>, transcript |-> <<>>]

\* PushChunk putting the fragment in front
PushChunkFront(audioChunks, data) == <<data>> \o audioChunks

\* turn.audioChunks.push(audio.data)
PushChunk(audioChunks, data) == Append(audioChunks, data)

WriteFile(fs, path, content) ==
    [p \in DOMAIN fs \cup {path} |-> IF p = path THEN content ELSE fs[p]]

SessionJson(dir) == <<dir, 0, "", "session.json">>
TurnFile(dir, turn, name) == <<dir, turn.id, turn.type, name>>

Handled(kind) ==
    /\ budget[kind] > 0
    /\ budget.total > 0
    /\ budget' = [budget EXCEPT ![kind] = @ - 1, !.total = @ - 1]

\* ------------------------------------------------------------ saveTurn
\* TurnMeta counting no fragments
TurnMetaNoChunks(turn) ==
    [id |-> turn.id, type |-> turn.type, audioChunks |-> 0,
     transcriptLength |-> Len(turn.transcript)]

\* the object written to meta.json (startedAt left out)
TurnMeta(turn) ==
    [id |-> turn.id, type |-> turn.type,
     audioChunks |-> Len(turn.audioChunks),
     transcriptLength |-> Len(turn.transcript)]

\* The part of saveTurn that runs before its first await: the three
\* writeFileSync calls and the call of makePlayableWebm.
saveTurn(o, t, by) ==
    LET session == sessionObjs[o]
        turn == turns[t]
        rawBuffer == ConcatChunks(turn.audioChunks)
        sessionId == SessionIdOf(o)
        playable == makePlayableWebm(webmInitSegments, sessionId, turn.type,
                                     rawBuffer)
        hasAudio == Len(turn.audioChunks) > 0
        f1 == IF turn.transcript # <<>>
              THEN WriteFile(files, TurnFile(session.dir, turn, "transcript.txt"),
                             turn.transcript)
              ELSE files
        f2 == IF hasAudio
              THEN WriteFile(f1, TurnFile(session.dir, turn, "audio.webm"),
                             playable.buffer)
              ELSE f1
        f3 == WriteFile(f2, TurnFile(session.dir, turn, "meta.json"),
                        TurnMeta(turn))
    IN  /\ files' = f3
        /\ webmInitSegments' = IF hasAudio THEN playable.cache
                               ELSE webmInitSegments
        /\ saves' = Append(saves,
               [turn |-> t, session |-> o, by |-> by, sessionId |-> sessionId,
                audioChunks |-> turn.audioChunks,
                transcript |-> turn.transcript,
                seen |-> Len(session.events),
                audio |-> IF hasAudio THEN playable.buffer ELSE <<>>])

\* ------------------------------------------------------- session_start
SessionStart(id) ==
    /\ Handled("session_start")
    /\ starting' = Append(starting, id)
    /\ last' = [msg |-> StartMsg(id), session |-> Null, turn |-> Null]
    /\ UNCHANGED <<given, returned, failures, sdk, globalThis>>
    /\ UNCHANGED <<sessions, sessionObjs, turns, webmInitSegments, timers,
                   drains, files, saves, owner, heard>>

\* the continuation after await parentRun.postRun()
SessionStartResume(i) ==
    /\ i \in DOMAIN starting
    /\ LET id == starting[i]
           o == Len(sessionObjs) + 1
       IN  /\ sessionObjs' = Append(sessionObjs, NewSession(id))
           /\ sessions' = SessionsSet(id, o)
           /\ files' = WriteFile(files, SessionJson(id), <<>>)
           /\ last' = [msg |-> Internal("session_start_resume", ""),
                       session |-> o, turn |-> Null]
    /\ starting' = RemoveAt(starting, i)
    /\ UNCHANGED <<given, returned, failures, sdk, globalThis>>
    /\ UNCHANGED <<turns, webmInitSegments, timers, drains, saves, owner,
                   budget, heard>>

\* --------------------------------------------------------------- event
EventIn(e) ==
    /\ e.kind = "event"
    /\ Handled("event")

\* if (session) fails: the event is dropped
EventDropped(e) ==
    /\ EventIn(e)
    /\ Target(e) = Null
    /\ last' = [msg |-> e, session |-> Null, turn |-> Null]
    /\ UNCHANGED <<given, returned, failures, sdk, globalThis>>
    /\ UNCHANGED <<sessions, sessionObjs, turns, webmInitSegments, timers,
                   starting, drains, files, saves, owner, heard>>

SpeechStarted(e) ==
    /\ EventIn(e)
    /\ e.type = T_InStart
    /\ Target(e) # Null
    /\ LET o == Target(e)
           t == Len(turns) + 1
       IN  /\ sessionObjs' = [sessionObjs EXCEPT
                  ![o].events = Append(@, e),
                  ![o].turnCount = NextTurnId(sessionObjs[o]),
                  ![o].currentInputTurn = t]
           /\ turns' = Append(turns,
                  NewTurn(NextTurnId(sessionObjs[o]), "input"))
           /\ owner' = Append(owner, o)
           /\ last' = [msg |-> e, session |-> o, turn |-> t]
    /\ UNCHANGED <<given, returned, failures, sdk, globalThis>>
    /\ UNCHANGED <<sessions, webmInitSegments, timers, starting, drains,
                   files, saves, heard>>

\* SpeechStopped without session.currentInputTurn = null
SpeechStoppedKeepsCurrent(e) ==
    /\ EventIn(e)
    /\ e.type = T_InStop
    /\ Target(e) # Null
    /\ LET o == Target(e)
           turnToSave == sessionObjs[o].currentInputTurn
       IN  IF turnToSave # Null
           THEN /\ sessionObjs' = [sessionObjs EXCEPT
                       ![o].events = Append(@, e),
                       ![o].pendingInputTurn = turnToSave]
                /\ timers' = Append(timers,
                       [session |-> o, turn |-> turnToSave, type |-> "input",
                        remaining |-> InputGraceMs])
                /\ last' = [msg |-> e, session |-> o, turn |-> turnToSave]
           ELSE /\ sessionObjs' = [sessionObjs EXCEPT
                       ![o].events = Append(@, e)]
                /\ timers' = timers
                /\ last' = [msg |-> e, session |-> o, turn |-> Null]
    /\ UNCHANGED <<given, returned, failures, sdk, globalThis>>
    /\ UNCHANGED <<sessions, turns, webmInitSegments, starting, drains,
                   files, saves, owner, heard>>

SpeechStopped(e) ==
    /\ EventIn(e)
    /\ e.type = T_InStop
    /\ Target(e) # Null
    /\ LET o == Target(e)
           turnToSave == sessionObjs[o].currentInputTurn
       IN  IF turnToSave # Null
           THEN /\ sessionObjs' = [sessionObjs EXCEPT
                       ![o].events = Append(@, e),
                       ![o].pendingInputTurn = turnToSave,
                       ![o].currentInputTurn = Null]
                /\ timers' = Append(timers,
                       [session |-> o, turn |-> turnToSave, type |-> "input",
                        remaining |-> InputGraceMs])
                /\ last' = [msg |-> e, session |-> o, turn |-> turnToSave]
           ELSE /\ sessionObjs' = [sessionObjs EXCEPT
                       ![o].events = Append(@, e)]
                /\ timers' = timers
                /\ last' = [msg |-> e, session |-> o, turn |-> Null]
    /\ UNCHANGED <<given, returned, failures, sdk, globalThis>>
    /\ UNCHANGED <<sessions, turns, webmInitSegments, starting, drains,
                   files, saves, owner, heard>>

TranscriptionCompleted(e) ==
    /\ EventIn(e)
    /\ e.type = T_InText
    /\ Target(e) # Null
    /\ LET o == Target(e)
           inputTurn == IF sessionObjs[o].currentInputTurn # Null
                        THEN sessionObjs[o].currentInputTurn
                        ELSE sessionObjs[o].pendingInputTurn
       IN  /\ sessionObjs' = [sessionObjs EXCEPT ![o].events = Append(@, e)]
           /\ turns' = IF inputTurn # Null /\ e.text # <<>>
                       THEN [turns EXCEPT ![inputTurn].transcript = e.text]
                       ELSE turns
           /\ last' = [msg |-> e, session |-> o, turn |-> inputTurn]
    /\ UNCHANGED <<given, returned, failures, sdk, globalThis>>
    /\ UNCHANGED <<sessions, webmInitSegments, timers, starting, drains,
                   files, saves, owner, heard>>

OutputStarted(e) ==
    /\ EventIn(e)
    /\ e.type = T_OutStart
    /\ Target(e) # Null
    /\ LET o == Target(e)
           t == Len(turns) + 1
       IN  /\ sessionObjs' = [sessionObjs EXCEPT
                  ![o].events = Append(@, e),
                  ![o].turnCount = NextTurnId(sessionObjs[o]),
                  ![o].currentOutputTurn = t]
           /\ turns' = Append(turns,
                  NewTurn(NextTurnId(sessionObjs[o]), "output"))
           /\ owner' = Append(owner, o)
           /\ last' = [msg |-> e, session |-> o, turn |-> t]
    /\ UNCHANGED <<given, returned, failures, sdk, globalThis>>
    /\ UNCHANGED <<sessions, webmInitSegments, timers, starting, drains,
                   files, saves, heard>>

\* TranscriptDelta falling back to the current input turn
TranscriptDeltaAnyDirection(e) ==
    /\ EventIn(e)
    /\ e.type = T_OutText
    /\ Target(e) # Null
    /\ LET o == Target(e)
           outputTurn == IF sessionObjs[o].currentOutputTurn # Null
                         THEN sessionObjs[o].currentOutputTurn
                         ELSE IF sessionObjs[o].pendingOutputTurn # Null
                         THEN sessionObjs[o].pendingOutputTurn
                         ELSE sessionObjs[o].currentInputTurn
       IN  /\ sessionObjs' = [sessionObjs EXCEPT ![o].events = Append(@, e)]
           /\ turns' = IF outputTurn # Null
                       THEN [turns EXCEPT ![outputTurn].transcript = @ \o e.text]
                       ELSE turns
           /\ last' = [msg |-> e, session |-> o, turn |-> outputTurn]
    /\ UNCHANGED <<given, returned, failures, sdk, globalThis>>
    /\ UNCHANGED <<sessions, webmInitSegments, timers, starting, drains,
                   files, saves, owner, heard>>

TranscriptDelta(e) ==
    /\ EventIn(e)
    /\ e.type = T_OutText
    /\ Target(e) # Null
    /\ LET o == Target(e)
           outputTurn == IF sessionObjs[o].currentOutputTurn # Null
                         THEN sessionObjs[o].currentOutputTurn
                         ELSE sessionObjs[o].pendingOutputTurn
       IN  /\ sessionObjs' = [sessionObjs EXCEPT ![o].events = Append(@, e)]
           /\ turns' = IF outputTurn # Null
                       THEN [turns EXCEPT ![outputTurn].transcript = @ \o e.text]
                       ELSE turns
           /\ last' = [msg |-> e, session |-> o, turn |-> outputTurn]
    /\ UNCHANGED <<given, returned, failures, sdk, globalThis>>
    /\ UNCHANGED <<sessions, webmInitSegments, timers, starting, drains,
                   files, saves, owner, heard>>

\* OutputStopped arming a timer for the pending turn when no turn is current
OutputStoppedRearms(e) ==
    /\ EventIn(e)
    /\ e.type = T_OutStop
    /\ Target(e) # Null
    /\ LET o == Target(e)
           turnToSave == sessionObjs[o].currentOutputTurn
       IN  IF turnToSave # Null
           THEN /\ sessionObjs' = [sessionObjs EXCEPT
                       ![o].events = Append(@, e),
                       ![o].pendingOutputTurn = turnToSave,
                       ![o].currentOutputTurn = Null]
                /\ timers' = Append(timers,
                       [session |-> o, turn |-> turnToSave, type |-> "output",
                        remaining |-> OutputGraceMs])
                /\ last' = [msg |-> e, session |-> o, turn |-> turnToSave]
           ELSE /\ sessionObjs' = [sessionObjs EXCEPT
                       ![o].events = Append(@, e)]
                /\ timers' =
                       IF sessionObjs[o].pendingOutputTurn # Null
                       THEN Append(timers,
                                [session |-> o,
                                 turn |-> sessionObjs[o].pendingOutputTurn,
                                 type |-> "output",
                                 remaining |-> OutputGraceMs])
                       ELSE timers
                /\ last' = [msg |-> e, session |-> o, turn |-> Null]
    /\ UNCHANGED <<given, returned, failures, sdk, globalThis>>
    /\ UNCHANGED <<sessions, turns, webmInitSegments, starting, drains,
                   files, saves, owner, heard>>

OutputStopped(e) ==
    /\ EventIn(e)
    /\ e.type = T_OutStop
    /\ Target(e) # Null
    /\ LET o == Target(e)
           turnToSave == sessionObjs[o].currentOutputTurn
       IN  IF turnToSave # Null
           THEN /\ sessionObjs' = [sessionObjs EXCEPT
                       ![o].events = Append(@, e),
                       ![o].pendingOutputTurn = turnToSave,
                       ![o].currentOutputTurn = Null]
                /\ timers' = Append(timers,
                       [session |-> o, turn |-> turnToSave, type |-> "output",
                        remaining |-> OutputGraceMs])
                /\ last' = [msg |-> e, session |-> o, turn |-> turnToSave]
           ELSE /\ sessionObjs' = [sessionObjs EXCEPT
                       ![o].events = Append(@, e)]
                /\ timers' = timers
                /\ last' = [msg |-> e, session |-> o, turn |-> Null]
    /\ UNCHANGED <<given, returned, failures, sdk, globalThis>>
    /\ UNCHANGED <<sessions, turns, webmInitSegments, starting, drains,
                   files, saves, owner, heard>>

\* OtherEvent that counts a turn
OtherEventCounted(e) ==
    /\ EventIn(e)
    /\ e.type = T_Other
    /\ Target(e) # Null
    /\ LET o == Target(e)
       IN  /\ sessionObjs' = [sessionObjs EXCEPT ![o].events = Append(@, e),
                                                 ![o].turnCount = @ + 1]
           /\ last' = [msg |-> e, session |-> o, turn |-> Null]
    /\ UNCHANGED <<given, returned, failures, sdk, globalThis>>
    /\ UNCHANGED <<sessions, turns, webmInitSegments, timers, starting,
                   drains, files, saves, owner, heard>>

\* an event of a type the handler does not look at
OtherEvent(e) ==
    /\ EventIn(e)
    /\ e.type = T_Other
    /\ Target(e) # Null
    /\ LET o == Target(e)
       IN  /\ sessionObjs' = [sessionObjs EXCEPT ![o].events = Append(@, e)]
           /\ last' = [msg |-> e, session |-> o, turn |-> Null]
    /\ UNCHANGED <<given, returned, failures, sdk, globalThis>>
    /\ UNCHANGED <<sessions, turns, webmInitSegments, timers, starting,
                   drains, files, saves, owner, heard>>


\* --------------------------------------------------------------- audio
\* Audio consulting the pending slot before the current slot
AudioPendingFirst(m) ==
    /\ m.kind = "audio"
    /\ Handled("audio")
    /\ LET sessionId == ResolveId(m)
           o == SessionsGet(sessionId)
       IN  IF o # Null /\ m.data # ""
           THEN LET initKey == <<sessionId, m.direction>>
                    chunkBuffer == Base64Decode(m.data)
                    session == sessionObjs[o]
                    turn == IF m.direction = "input"
                            THEN IF session.pendingInputTurn # Null
                                 THEN session.pendingInputTurn
                                 ELSE session.currentInputTurn
                            ELSE IF session.pendingOutputTurn # Null
                                 THEN session.pendingOutputTurn
                                 ELSE session.currentOutputTurn
                IN  /\ webmInitSegments' =
                           IF initKey \notin DOMAIN webmInitSegments
                              /\ hasEbmlHeader(chunkBuffer)
                           THEN WriteFile(webmInitSegments, initKey,
                                          extractWebmInitSegment(chunkBuffer))
                           ELSE webmInitSegments
                    /\ turns' = IF turn # Null
                                THEN [turns EXCEPT ![turn].audioChunks =
                                                       PushChunk(@, m.data)]
                                ELSE turns
                    /\ last' = [msg |-> m, session |-> o, turn |-> turn]
           ELSE /\ UNCHANGED <<webmInitSegments, turns>>
                /\ last' = [msg |-> m, session |-> Null, turn |-> Null]
    /\ heard' = Append(heard,
           [data |-> m.data, direction |-> m.direction,
            session |-> Target(m),
            after |-> IF Target(m) = Null THEN 0
                      ELSE Len(sessionObjs[Target(m)].events)])
    /\ UNCHANGED <<given, returned, failures, sdk, globalThis>>
    /\ UNCHANGED <<sessions, sessionObjs, timers, starting, drains, files,
                   saves, owner>>

\* Audio caching the initialization segment of every fragment with a header
AudioCachesAlways(m) ==
    /\ m.kind = "audio"
    /\ Handled("audio")
    /\ LET sessionId == ResolveId(m)
           o == SessionsGet(sessionId)
       IN  IF o # Null /\ m.data # ""
           THEN LET initKey == <<sessionId, m.direction>>
                    chunkBuffer == Base64Decode(m.data)
                    session == sessionObjs[o]
                    turn == IF m.direction = "input"
                            THEN IF session.currentInputTurn # Null
                                 THEN session.currentInputTurn
                                 ELSE session.pendingInputTurn
                            ELSE IF session.currentOutputTurn # Null
                                 THEN session.currentOutputTurn
                                 ELSE session.pendingOutputTurn
                IN  /\ webmInitSegments' =
                           IF hasEbmlHeader(chunkBuffer)
                           THEN WriteFile(webmInitSegments, initKey,
                                          extractWebmInitSegment(chunkBuffer))
                           ELSE webmInitSegments
                    /\ turns' = IF turn # Null
                                THEN [turns EXCEPT ![turn].audioChunks =
                                                       PushChunk(@, m.data)]
                                ELSE turns
                    /\ last' = [msg |-> m, session |-> o, turn |-> turn]
           ELSE /\ UNCHANGED <<webmInitSegments, turns>>
                /\ last' = [msg |-> m, session |-> Null, turn |-> Null]
    /\ heard' = Append(heard,
           [data |-> m.data, direction |-> m.direction,
            session |-> Target(m),
            after |-> IF Target(m) = Null THEN 0
                      ELSE Len(sessionObjs[Target(m)].events)])
    /\ UNCHANGED <<given, returned, failures, sdk, globalThis>>
    /\ UNCHANGED <<sessions, sessionObjs, timers, starting, drains, files,
                   saves, owner>>

Audio(m) ==
    /\ m.kind = "audio"
    /\ Handled("audio")
    /\ LET sessionId == ResolveId(m)
           o == SessionsGet(sessionId)
       IN  IF o # Null /\ m.data # ""
           THEN LET initKey == <<sessionId, m.direction>>
                    chunkBuffer == Base64Decode(m.data)
                    session == sessionObjs[o]
                    turn == IF m.direction = "input"
                            THEN IF session.currentInputTurn # Null
                                 THEN session.currentInputTurn
                                 ELSE session.pendingInputTurn
                            ELSE IF session.currentOutputTurn # Null
                                 THEN session.currentOutputTurn
                                 ELSE session.pendingOutputTurn
                IN  /\ webmInitSegments' =
                           IF initKey \notin DOMAIN webmInitSegments
                              /\ hasEbmlHeader(chunkBuffer)
                           THEN WriteFile(webmInitSegments, initKey,
                                          extractWebmInitSegment(chunkBuffer))
                           ELSE webmInitSegments
                    /\ turns' = IF turn # Null
                                THEN [turns EXCEPT ![turn].audioChunks =
                                                       PushChunk(@, m.data)]
                                ELSE turns
                    /\ last' = [msg |-> m, session |-> o, turn |-> turn]
           ELSE /\ UNCHANGED <<webmInitSegments, turns>>
                /\ last' = [msg |-> m, session |-> Null, turn |-> Null]
    /\ heard' = Append(heard,
           [data |-> m.data, direction |-> m.direction,
            session |-> Target(m),
            after |-> IF Target(m) = Null THEN 0
                      ELSE Len(sessionObjs[Target(m)].events)])
    /\ UNCHANGED <<given, returned, failures, sdk, globalThis>>
    /\ UNCHANGED <<sessions, sessionObjs, timers, starting, drains, files,
                   saves, owner>>

\* -------------------------------------------------------------- timers
\* setTimeout callbacks of one delay run in the order they were armed
Due(i) ==
    /\ i \in DOMAIN timers
    /\ timers[i].remaining <= 0
    /\ \A j \in 1..(i - 1) : timers[j].type # timers[i].type

\* InputTimer that saves the turn and leaves it in the pending slot
InputTimerKeepsSlot(i) ==
    /\ Due(i)
    /\ timers[i].type = "input"
    /\ LET o == timers[i].session
           turnToSave == timers[i].turn
       IN  /\ sessionObjs' = sessionObjs
           /\ saveTurn(o, turnToSave, "timer")
           /\ last' = [msg |-> Internal("timer", "input"), session |-> o,
                       turn |-> turnToSave]
    /\ timers' = RemoveAt(timers, i)
    /\ UNCHANGED <<given, returned, failures, sdk, globalThis>>
    /\ UNCHANGED <<sessions, turns, starting, drains, owner, budget, heard>>

InputTimer(i) ==
    /\ Due(i)
    /\ timers[i].type = "input"
    /\ LET o == timers[i].session
           turnToSave == timers[i].turn
       IN  /\ sessionObjs' =
                  IF sessionObjs[o].pendingInputTurn = turnToSave
                  THEN [sessionObjs EXCEPT ![o].pendingInputTurn = Null]
                  ELSE sessionObjs
           /\ saveTurn(o, turnToSave, "timer")
           /\ last' = [msg |-> Internal("timer", "input"), session |-> o,
                       turn |-> turnToSave]
    /\ timers' = RemoveAt(timers, i)
    /\ UNCHANGED <<given, returned, failures, sdk, globalThis>>
    /\ UNCHANGED <<sessions, turns, starting, drains, owner, budget, heard>>

\* OutputTimer without the identity guard
OutputTimerClearsAlways(i) ==
    /\ Due(i)
    /\ timers[i].type = "output"
    /\ LET o == timers[i].session
           turnToSave == timers[i].turn
       IN  /\ sessionObjs' = [sessionObjs EXCEPT ![o].pendingOutputTurn = Null]
           /\ saveTurn(o, turnToSave, "timer")
           /\ last' = [msg |-> Internal("timer", "output"), session |-> o,
                       turn |-> turnToSave]
    /\ timers' = RemoveAt(timers, i)
    /\ UNCHANGED <<given, returned, failures, sdk, globalThis>>
    /\ UNCHANGED <<sessions, turns, starting, drains, owner, budget, heard>>

OutputTimer(i) ==
    /\ Due(i)
    /\ timers[i].type = "output"
    /\ LET o == timers[i].session
           turnToSave == timers[i].turn
       IN  /\ sessionObjs' =
                  IF sessionObjs[o].pendingOutputTurn = turnToSave
                  THEN [sessionObjs EXCEPT ![o].pendingOutputTurn = Null]
                  ELSE sessionObjs
           /\ saveTurn(o, turnToSave, "timer")
           /\ last' = [msg |-> Internal("timer", "output"), session |-> o,
                       turn |-> turnToSave]
    /\ timers' = RemoveAt(timers, i)
    /\ UNCHANGED <<given, returned, failures, sdk, globalThis>>
    /\ UNCHANGED <<sessions, turns, starting, drains, owner, budget, heard>>

\* time passes while no armed callback is due
Tick ==
    /\ timers # <<>>
    /\ \A i \in DOMAIN timers : timers[i].remaining > 0
    /\ timers' = [i \in DOMAIN timers |->
                     [timers[i] EXCEPT !.remaining = @ - TickMs]]
    /\ UNCHANGED <<given, returned, failures, sdk, globalThis>>
    /\ UNCHANGED <<sessions, sessionObjs, turns, webmInitSegments, starting,
                   drains, files, saves, owner, heard, budget, last>>

\* --------------------------------------------------------- session_end
SlotAt(session, k) ==
    CASE k = 1 -> session.currentInputTurn
      [] k = 2 -> session.pendingInputTurn
      [] k = 3 -> session.currentOutputTurn
      [] k = 4 -> session.pendingOutputTurn

\* history: the four slots as a sequence, in the order the handler reads them
SlotsOf(session) == [k \in 1..4 |-> SlotAt(session, k)]

\* the next of the four if-statements, from the pc-th on, whose slot is set
NextSlot(session, pc) ==
    IF \E k \in pc..4 : SlotAt(session, k) # Null
    THEN CHOOSE k \in pc..4 :
             /\ SlotAt(session, k) # Null
             /\ \A j \in pc..(k - 1) : SlotAt(session, j) = Null
    ELSE 5

\* the handler runs from its pc-th if-statement to its next await: either
\* await saveTurn(...) of the next slot that is set, or, when none is left,
\* await session.parentRun.end(...)
DrainRun(sessionId, o, pc, atEnd, kind, others) ==
    LET k == NextSlot(sessionObjs[o], pc)
    IN  IF k <= 4
        THEN /\ saveTurn(o, SlotAt(sessionObjs[o], k), "drain")
             /\ drains' = Append(others,
                    [sessionId |-> sessionId, session |-> o, pc |-> k + 1,
                     atEnd |-> atEnd])
             /\ last' = [msg |-> kind, session |-> o,
                         turn |-> SlotAt(sessionObjs[o], k)]
        ELSE /\ UNCHANGED <<files, webmInitSegments, saves>>
             /\ drains' = Append(others,
                    [sessionId |-> sessionId, session |-> o, pc |-> 6,
                     atEnd |-> atEnd])
             /\ last' = [msg |-> kind, session |-> o, turn |-> Null]

SessionEnd(m) ==
    /\ m.kind = "session_end"
    /\ Handled("session_end")
    /\ IF Target(m) # Null
       THEN DrainRun(ResolveId(m), Target(m), 1,
                     SlotsOf(sessionObjs[Target(m)]), m, drains)
       ELSE /\ UNCHANGED <<files, webmInitSegments, saves, drains>>
            /\ last' = [msg |-> m, session |-> Null, turn |-> Null]
    /\ UNCHANGED <<given, returned, failures, sdk, globalThis>>
    /\ UNCHANGED <<sessions, sessionObjs, turns, timers, starting,
                   owner, heard>>

\* the continuation after await saveTurn(...)
SessionEndResume(i) ==
    /\ i \in DOMAIN drains
    /\ drains[i].pc <= 5
    /\ DrainRun(drains[i].sessionId, drains[i].session, drains[i].pc,
                drains[i].atEnd, Internal("session_end_resume", ""), RemoveAt(drains, i))
    /\ UNCHANGED <<given, returned, failures, sdk, globalThis>>
    /\ UNCHANGED <<sessions, sessionObjs, turns, timers, starting, owner,
                   budget, heard>>

\* the continuation after await session.parentRun.patchRun()
SessionEndFinish(i) ==
    /\ i \in DOMAIN drains
    /\ drains[i].pc = 6
    /\ LET sessionId == drains[i].sessionId
           session == sessionObjs[drains[i].session]
       IN  /\ files' = WriteFile(files, SessionJson(session.dir),
                                 session.events)
           /\ webmInitSegments' =
                  [k \in DOMAIN webmInitSegments
                         \ {<<sessionId, "input">>, <<sessionId, "output">>}
                      |-> webmInitSegments[k]]
           /\ sessions' = SessionsDelete(sessionId)
           /\ last' = [msg |-> Internal("session_end_finish", ""),
                       session |-> drains[i].session, turn |-> Null]
    /\ drains' = RemoveAt(drains, i)
    /\ UNCHANGED <<given, returned, failures, sdk, globalThis>>
    /\ UNCHANGED <<sessionObjs, turns, timers, starting, saves,
                   owner, budget, heard>>

\* --------------------------------------------------- saveTurn throwing
\* the writes of saveTurn, in the order it makes them
Artifacts == <<"transcript.txt", "audio.webm", "meta.json">>

\* saveTurn attempts this write for the turn
Attempted(t, at) ==
    CASE at = "transcript.txt" -> turns[t].transcript # <<>>
      [] at = "audio.webm" -> Len(turns[t].audioChunks) > 0
      [] OTHER -> TRUE

\* saveTurn when writeFileSync throws at the write of artifact `at`: the
\* files and the cache as the earlier statements left them
ThrownSave(o, t, at) ==
    LET session == sessionObjs[o]
        turn == turns[t]
        playable == makePlayableWebm(webmInitSegments, SessionIdOf(o),
                        turn.type, ConcatChunks(turn.audioChunks))
        hasAudio == Len(turn.audioChunks) > 0
        f1 == IF turn.transcript # <<>> /\ at # "transcript.txt"
              THEN WriteFile(files, TurnFile(session.dir, turn, "transcript.txt"),
                             turn.transcript)
              ELSE files
        f2 == IF hasAudio /\ at = "meta.json"
              THEN WriteFile(f1, TurnFile(session.dir, turn, "audio.webm"),
                             playable.buffer)
              ELSE f1
    IN  [files |-> f2,
         cache |-> IF hasAudio /\ at # "transcript.txt" THEN playable.cache
                   ELSE webmInitSegments]

\* what the runtime does with the rejected promise of the handler or timer
\* callback: it goes on ("rejected"), or the process ends ("exit")
Outcomes == {"rejected", "exit"}

\* the process has ended: its memory is gone, no message is handled
Exited ==
    /\ sessions' = <<>>
    /\ timers' = <<>>
    /\ drains' = <<>>
    /\ starting' = <<>>
    /\ webmInitSegments' = <<>>
    /\ budget' = [session_start |-> 0, event |-> 0, audio |-> 0,
                  session_end |-> 0, total |-> 0]

Thrown(o, t, by, at, outcome, slots) ==
    /\ Len(failures) < MaxFailures
    /\ Attempted(t, at)
    /\ files' = ThrownSave(o, t, at).files
    /\ failures' = Append(failures,
           [turn |-> t, session |-> o, by |-> by, at |-> at,
            outcome |-> outcome, slots |-> slots])
    /\ last' = [msg |-> Internal("throw", turns[t].type), session |-> o,
                turn |-> t]
    /\ UNCHANGED <<turns, saves, owner, heard, given, returned, sdk,
                   globalThis>>

\* the input timer callback whose saveTurn throws
InputTimerThrows(i, at, outcome) ==
    /\ Due(i)
    /\ timers[i].type = "input"
    /\ LET o == timers[i].session
           turnToSave == timers[i].turn
       IN  /\ sessionObjs' =
                  IF sessionObjs[o].pendingInputTurn = turnToSave
                  THEN [sessionObjs EXCEPT ![o].pendingInputTurn = Null]
                  ELSE sessionObjs
           /\ Thrown(o, turnToSave, "timer", at, outcome,
                     SlotsOf(sessionObjs[o]))
           /\ IF outcome = "exit" THEN Exited
              ELSE /\ timers' = RemoveAt(timers, i)
                   /\ webmInitSegments' = ThrownSave(o, turnToSave, at).cache
                   /\ UNCHANGED <<sessions, starting, drains, budget>>

\* session_end whose first saveTurn throws
SessionEndThrows(m, at, outcome) ==
    /\ m.kind = "session_end"
    /\ budget.session_end > 0
    /\ budget.total > 0
    /\ Target(m) # Null
    /\ NextSlot(sessionObjs[Target(m)], 1) <= 4
    /\ LET o == Target(m)
           t == SlotAt(sessionObjs[o], NextSlot(sessionObjs[o], 1))
       IN  /\ Thrown(o, t, "drain", at, outcome, SlotsOf(sessionObjs[o]))
           /\ IF outcome = "exit" THEN Exited
              ELSE /\ Handled("session_end")
                   /\ webmInitSegments' = ThrownSave(o, t, at).cache
                   /\ UNCHANGED <<sessions, timers, starting, drains>>
    /\ UNCHANGED sessionObjs

\* the continuation of session_end whose next saveTurn throws
SessionEndResumeThrows(i, at, outcome) ==
    /\ i \in DOMAIN drains
    /\ drains[i].pc <= 5
    /\ NextSlot(sessionObjs[drains[i].session], drains[i].pc) <= 4
    /\ LET o == drains[i].session
           t == SlotAt(sessionObjs[o], NextSlot(sessionObjs[o], drains[i].pc))
       IN  /\ Thrown(o, t, "drain", at, outcome, drains[i].atEnd)
           /\ IF outcome = "exit" THEN Exited
              ELSE /\ drains' = RemoveAt(drains, i)
                   /\ webmInitSegments' = ThrownSave(o, t, at).cache
                   /\ UNCHANGED <<sessions, timers, starting, budget>>
    /\ UNCHANGED sessionObjs

\* ------------------------------------------------- enable / disable
\* the SDK function `name` is called
SdkCall(name) ==
    /\ name \in {"enable", "disable", "isActive"}
    /\ sdk.calls < MaxSdkCalls
    /\ UNCHANGED <<sessions, sessionObjs, turns, webmInitSegments, timers,
                   starting, drains, files, saves, owner, heard, budget,
                   last, given, returned, failures>>

\* enable without the check of isEnabled
enableUnguarded ==
    /\ SdkCall("enable")
    /\ sdk' = [sdk EXCEPT
           !.OriginalRTCPeerConnection = globalThis.RTCPeerConnection,
           !.originalFetch = globalThis.fetch,
           !.isEnabled = TRUE,
           !.created = @ + 1,
           !.calls = @ + 1, !.lastCall = "enable"]
    /\ globalThis' =
           [RTCPeerConnection |->
                Wrapper("RTCPeerConnection", sdk.created + 1),
            fetch |-> Wrapper("fetch", sdk.created + 1)]

enable ==
    /\ SdkCall("enable")
    /\ IF sdk.isEnabled
       THEN /\ sdk' = [sdk EXCEPT !.calls = @ + 1, !.lastCall = "enable"]
            /\ UNCHANGED globalThis
       ELSE /\ sdk' = [sdk EXCEPT
                   !.OriginalRTCPeerConnection = globalThis.RTCPeerConnection,
                   !.originalFetch = globalThis.fetch,
                   !.isEnabled = TRUE,
                   !.created = @ + 1,
                   !.calls = @ + 1, !.lastCall = "enable"]
            /\ globalThis' =
                   [RTCPeerConnection |->
                        Wrapper("RTCPeerConnection", sdk.created + 1),
                    fetch |-> Wrapper("fetch", sdk.created + 1)]

disable ==
    /\ SdkCall("disable")
    /\ IF ~sdk.isEnabled
       THEN /\ sdk' = [sdk EXCEPT !.calls = @ + 1, !.lastCall = "disable"]
            /\ UNCHANGED globalThis
       ELSE /\ sdk' = [sdk EXCEPT !.isEnabled = FALSE,
                                  !.calls = @ + 1, !.lastCall = "disable"]
            /\ globalThis' =
                   [RTCPeerConnection |-> sdk.OriginalRTCPeerConnection,
                    fetch |-> sdk.originalFetch]

isActive ==
    /\ SdkCall("isActive")
    /\ sdk' = [sdk EXCEPT
           !.answered = IF sdk.isEnabled THEN "true" ELSE "false",
           !.calls = @ + 1, !.lastCall = "isActive"]
    /\ UNCHANGED globalThis

\* ------------------------------------------------- browser SDK sessions
\* emit(type, data) with config.endpoint set: the message is handed to
\* originalFetch
emit(s, type, session) ==
    [s EXCEPT !.emitted = Append(@, [type |-> type, session |-> session])]

startSession(s) ==
    emit([s EXCEPT !.sessionData = s.generated + 1,
                   !.generated = s.generated + 1],
         "session_start", s.generated + 1)

endSession(s) ==
    IF s.sessionData = Null THEN s
    ELSE [emit(s, "session_end", s.sessionData) EXCEPT !.sessionData = Null]

recordEvent(s) ==
    IF s.sessionData = Null THEN s
    ELSE emit(s, "event", s.sessionData)

\* recordAudioChunk with config.recordAudio and config.endpoint set: the
\* blob is given to a FileReader, whose onload runs later
recordAudioChunk(s, direction) ==
    IF s.sessionData = Null THEN s
    ELSE [s EXCEPT !.reading = Append(@, [session |-> s.sessionData,
                                          direction |-> direction])]

\* something the page or the browser does with the enabled SDK
SessionCall(name, s) ==
    /\ sdk.isEnabled
    /\ sdk.calls < MaxSessionCalls
    /\ sdk' = [s EXCEPT !.calls = sdk.calls + 1, !.lastCall = name]
    /\ UNCHANGED <<sessions, sessionObjs, turns, webmInitSegments, timers,
                   starting, drains, files, saves, owner, heard, budget,
                   last, given, returned, failures, globalThis>>

\* new RTCPeerConnection(...) through the wrapper
wrapPeerConnection ==
    SessionCall("wrapPeerConnection",
                IF sdk.sessionData = Null THEN startSession(sdk) ELSE sdk)

\* pc.close() of a wrapped connection
pcClose == SessionCall("close", endSession(sdk))

\* a message received or sent on a wrapped data channel
dataChannelMessage == SessionCall("message", recordEvent(sdk))

\* ondataavailable of a recorder, with a blob that is not empty
ondataavailable(direction) ==
    SessionCall("dataavailable", recordAudioChunk(sdk, direction))

\* reader.onload of one of the FileReaders
readerOnload(i) ==
    /\ i \in DOMAIN sdk.reading
    /\ SessionCall("onload",
                   [emit(sdk, "audio", sdk.reading[i].session)
                       EXCEPT !.reading = RemoveAt(sdk.reading, i)])

\* fetch of a realtime URL through the wrapper, with or without an SDP offer
observableFetch(offer) ==
    LET started == IF sdk.sessionData = Null THEN startSession(sdk) ELSE sdk
        offered == IF offer THEN emit(started, "signaling", started.sessionData)
                   ELSE started
    IN  SessionCall("fetch", [offered EXCEPT !.fetching = @ + 1])

\* the continuation of observableFetch when the response has arrived
fetchResolved(answer) ==
    /\ sdk.fetching > 0
    /\ SessionCall("response",
                   [(IF answer THEN emit(sdk, "signaling", sdk.sessionData)
                     ELSE sdk) EXCEPT !.fetching = sdk.fetching - 1])

\* the beforeunload listener
beforeunload ==
    SessionCall("beforeunload",
                IF sdk.sessionData # Null THEN endSession(sdk) ELSE sdk)

\* ------------------------------------------------------- specification
InitWith(b) ==
    /\ sessions = <<>>
    /\ sessionObjs = <<>>
    /\ turns = <<>>
    /\ webmInitSegments = <<>>
    /\ timers = <<>>
    /\ starting = <<>>
    /\ drains = <<>>
    /\ files = <<>>
    /\ saves = <<>>
    /\ owner = <<>>
    /\ heard = <<>>
    /\ budget = b
    /\ last = [msg |-> Internal("init", ""), session |-> Null, turn |-> Null]
    /\ given = <<>>
    /\ returned = NoCall
    /\ failures = <<>>
    /\ sdk = SdkLoaded
    /\ globalThis = Browser

EventsOf(types, ids, texts) ==
    {EventMsg(type, id, text) : type \in types, id \in ids, text \in texts}

\* the steps that are not the arrival of a message
Internals ==
    \/ \E i \in DOMAIN starting : SessionStartResume(i)
    \/ \E i \in DOMAIN timers : InputTimer(i)
    \/ \E i \in DOMAIN timers : OutputTimer(i)
    \/ Tick
    \/ \E i \in DOMAIN drains : SessionEndResume(i)
    \/ \E i \in DOMAIN drains : SessionEndFinish(i)

\* Spec: the turn lifecycle of one session, both directions; the messages
\* are those of the browser SDK, whose events carry no sessionId
BoundaryEvents ==
    EventsOf({T_InStart, T_InStop, T_OutStart, T_OutStop}, {NoId}, {<<>>})

Init ==
    InitWith([session_start |-> 1, event |-> MaxEvents, audio |-> 0,
              session_end |-> MaxEnds, total |-> MaxMsgs])

Next ==
    \/ SessionStart("s1")
    \/ \E e \in BoundaryEvents : EventDropped(e)
    \/ \E e \in BoundaryEvents : SpeechStarted(e)
    \/ \E e \in BoundaryEvents : SpeechStopped(e)
    \/ \E e \in BoundaryEvents : OutputStarted(e)
    \/ \E e \in BoundaryEvents : OutputStopped(e)
    \/ SessionEnd(EndMsg("s1"))
    \/ Internals

Spec == Init /\ [][Next]_vars


\* SpecData: one session, the input direction with its audio fragments
\* and transcription events
InputEvents ==
    EventsOf({T_InStart, T_InStop}, {NoId}, {<<>>})
        \cup EventsOf({T_InText}, {NoId}, Texts)

InputAudios == {AudioMsg(NoId, "input", f) : f \in Fragments}

InitData ==
    InitWith([session_start |-> 1, event |-> MaxDataEvents,
              audio |-> MaxAudio, session_end |-> 1, total |-> MaxDataMsgs])

NextData ==
    \/ SessionStart("s1")
    \/ \E e \in InputEvents : EventDropped(e)
    \/ \E e \in InputEvents : SpeechStarted(e)
    \/ \E e \in InputEvents : SpeechStopped(e)
    \/ \E e \in InputEvents : TranscriptionCompleted(e)
    \/ \E m \in InputAudios : Audio(m)
    \/ SessionEnd(EndMsg("s1"))
    \/ \E i \in DOMAIN starting : SessionStartResume(i)
    \/ \E i \in DOMAIN timers : InputTimer(i)
    \/ Tick
    \/ \E i \in DOMAIN drains : SessionEndResume(i)
    \/ \E i \in DOMAIN drains : SessionEndFinish(i)

SpecData == InitData /\ [][NextData]_vars

\* SpecDataLive: SpecData with the event loop running every callback that
\* is ready: a due timer fires, time passes while timers wait, and an
\* awaited promise that has settled resumes its handler
SpecDataLive ==
    /\ InitData
    /\ [][NextData]_vars
    /\ WF_vars(Tick)
    /\ WF_vars(\E i \in DOMAIN timers : InputTimer(i))
    /\ WF_vars(\E i \in DOMAIN starting : SessionStartResume(i))
    /\ WF_vars(\E i \in DOMAIN drains : SessionEndResume(i))
    /\ WF_vars(\E i \in DOMAIN drains : SessionEndFinish(i))

\* SpecCache: one session, input fragments with two different headers
CacheEvents == EventsOf({T_InStart, T_InStop}, {NoId}, {<<>>})

CacheAudios ==
    {AudioMsg(NoId, "input", f) : f \in {"GkXfo4E=", "GkXfo4I=", "CQ=="}}

InitCache ==
    InitWith([session_start |-> 1, event |-> MaxCacheEvents,
              audio |-> MaxCacheAudio, session_end |-> 1,
              total |-> MaxCacheMsgs])

NextCache ==
    \/ SessionStart("s1")
    \/ \E e \in CacheEvents : EventDropped(e)
    \/ \E e \in CacheEvents : SpeechStarted(e)
    \/ \E e \in CacheEvents : SpeechStopped(e)
    \/ \E m \in CacheAudios : Audio(m)
    \/ SessionEnd(EndMsg("s1"))
    \/ \E i \in DOMAIN starting : SessionStartResume(i)
    \/ \E i \in DOMAIN timers : InputTimer(i)
    \/ Tick
    \/ \E i \in DOMAIN drains : SessionEndResume(i)
    \/ \E i \in DOMAIN drains : SessionEndFinish(i)

SpecCache == InitCache /\ [][NextCache]_vars

\* SpecRouting: two session ids, messages with and without a sessionId
AnyId == SessionIds \cup {NoId}

RoutedEvents == EventsOf({T_InStart, T_Other}, AnyId, {<<>>})

RoutedAudios == {AudioMsg(id, "input", "GkXfo4E=") : id \in AnyId}

InitRouting ==
    InitWith([session_start |-> MaxStarts, event |-> 2, audio |-> 2,
              session_end |-> 1, total |-> MaxRoutingMsgs])

NextRouting ==
    \/ \E id \in SessionIds : SessionStart(id)
    \/ \E e \in RoutedEvents : EventDropped(e)
    \/ \E e \in RoutedEvents : SpeechStarted(e)
    \/ \E e \in RoutedEvents : OtherEvent(e)
    \/ \E m \in RoutedAudios : Audio(m)
    \/ \E id \in AnyId : SessionEnd(EndMsg(id))
    \/ \E i \in DOMAIN starting : SessionStartResume(i)
    \/ \E i \in DOMAIN drains : SessionEndResume(i)
    \/ \E i \in DOMAIN drains : SessionEndFinish(i)

SpecRouting == InitRouting /\ [][NextRouting]_vars

\* SpecWebm: the WebM helpers called on their own, on every buffer of
\* Buffers and every cache of CacheStates
EbmlHeader == <<26, 69, 223, 163>>
ClusterMarker == <<31, 67, 182, 117>>

\* a Timecode element: id 0xE7, size of one or two bytes, the value
Timecode(t) ==
    IF t < 256 THEN <<231, 129, t>> ELSE <<231, 130, t \div 256, t % 256>>

\* a Cluster: the marker, a size field of one byte, the Timecode, block data
Cluster(t, data) == ClusterMarker \o <<129>> \o Timecode(t) \o data

Timecodes == {0, 5, 7, 300}
BlockData == {<<>>, <<9, 9, 9>>}
Clusters == {Cluster(t, d) : t \in Timecodes, d \in BlockData}

\* the runs of n clusters
RECURSIVE ClusterRuns(_)
ClusterRuns(n) ==
    IF n = 0 THEN {<<>>}
    ELSE {a \o b : a \in ClusterRuns(n - 1), b \in Clusters}

Bodies ==
    {ClusterMarker} \cup UNION {ClusterRuns(n) : n \in 0..MaxClusters}

Prefixes == {<<>>, EbmlHeader, EbmlHeader \o <<129>>, <<31, 67, 182>>}

Buffers == {p \o b : p \in Prefixes, b \in Bodies}

CacheStates ==
    {<<>>,
     WriteFile(<<>>, <<"s1", "input">>, EbmlHeader \o <<129>>),
     WriteFile(<<>>, <<"s1", "output">>, EbmlHeader)}

InitWebm ==
    /\ sessions = <<>>
    /\ sessionObjs = <<>>
    /\ turns = <<>>
    /\ webmInitSegments \in CacheStates
    /\ timers = <<>>
    /\ starting = <<>>
    /\ drains = <<>>
    /\ files = <<>>
    /\ saves = <<>>
    /\ owner = <<>>
    /\ heard = <<>>
    /\ budget = [session_start |-> 0, event |-> 0, audio |-> 0,
                 session_end |-> 0, total |-> 0]
    /\ last = [msg |-> Internal("init", ""), session |-> Null, turn |-> Null]
    /\ given \in Buffers
    /\ returned = NoCall
    /\ failures = <<>>
    /\ sdk = SdkLoaded
    /\ globalThis = Browser

Called(fn, sessionId, direction, buffer, offset) ==
    /\ returned' = [NoCall EXCEPT
                        !.fn = fn, !.sessionId = sessionId,
                        !.direction = direction, !.cache = webmInitSegments,
                        !.buffer = buffer, !.offset = offset]
    /\ UNCHANGED <<sessions, sessionObjs, turns, timers, starting, drains,
                   files, saves, owner, heard, budget, last, given, failures,
                   sdk, globalThis>>

CallExtract ==
    /\ Called("extractWebmInitSegment", "", "",
              extractWebmInitSegment(given), 0)
    /\ UNCHANGED webmInitSegments

CallAdjust ==
    /\ Called("adjustClusterTimestamps", "", "",
              adjustClusterTimestamps(given).buffer,
              adjustClusterTimestamps(given).offset)
    /\ UNCHANGED webmInitSegments

\* adjustClusterTimestamps applied to the buffer it has just returned
CallAdjustAgain ==
    /\ returned.fn = "adjustClusterTimestamps"
    /\ Called("adjustClusterTimestamps again", "", "",
              adjustClusterTimestamps(returned.buffer).buffer,
              adjustClusterTimestamps(returned.buffer).offset)
    /\ UNCHANGED webmInitSegments

CallMakePlayable(sessionId, direction) ==
    LET made == makePlayableWebm(webmInitSegments, sessionId, direction, given)
    IN  /\ Called("makePlayableWebm", sessionId, direction, made.buffer, 0)
        /\ webmInitSegments' = made.cache

NextWebm ==
    \/ CallExtract
    \/ CallAdjust
    \/ \E direction \in Directions : CallMakePlayable("s1", direction)

SpecWebm == InitWebm /\ [][NextWebm]_vars

\* SpecFrame: two live sessions, both directions, every message with the
\* id of its session
FrameEvents ==
    EventsOf({T_InStart, T_InStop, T_OutStart, T_OutStop}, SessionIds, {<<>>})
        \cup EventsOf({T_InText, T_OutText}, SessionIds, {<<"a">>})

FrameAudios ==
    {AudioMsg(id, direction, "GkXfo4E=") :
        id \in SessionIds, direction \in Directions}

\* the state after session_start has been handled for s1 and then for s2
InitFrame ==
    /\ sessions = <<[id |-> "s1", obj |-> 1], [id |-> "s2", obj |-> 2]>>
    /\ sessionObjs = <<NewSession("s1"), NewSession("s2")>>
    /\ turns = <<>>
    /\ webmInitSegments = <<>>
    /\ timers = <<>>
    /\ starting = <<>>
    /\ drains = <<>>
    /\ files = WriteFile(WriteFile(<<>>, SessionJson("s1"), <<>>),
                         SessionJson("s2"), <<>>)
    /\ saves = <<>>
    /\ owner = <<>>
    /\ heard = <<>>
    /\ budget = [session_start |-> 0, event |-> MaxFrameEvents,
                 audio |-> MaxFrameAudio, session_end |-> 0,
                 total |-> MaxFrameMsgs]
    /\ last = [msg |-> Internal("session_start_resume", ""), session |-> 2,
               turn |-> Null]
    /\ given = <<>>
    /\ returned = NoCall
    /\ failures = <<>>
    /\ sdk = SdkLoaded
    /\ globalThis = Browser

NextFrame ==
    \/ \E e \in FrameEvents : SpeechStarted(e)
    \/ \E e \in FrameEvents : SpeechStopped(e)
    \/ \E e \in FrameEvents : TranscriptionCompleted(e)
    \/ \E e \in FrameEvents : OutputStarted(e)
    \/ \E e \in FrameEvents : TranscriptDelta(e)
    \/ \E e \in FrameEvents : OutputStopped(e)
    \/ \E m \in FrameAudios : Audio(m)
    \/ \E i \in DOMAIN timers : InputTimer(i)
    \/ \E i \in DOMAIN timers : OutputTimer(i)
    \/ Tick

SpecFrame == InitFrame /\ [][NextFrame]_vars

\* SpecSession: the sessions of the browser SDK, enabled with an endpoint
\* and with audio recording
InitSession ==
    InitWith([session_start |-> 0, event |-> 0, audio |-> 0,
              session_end |-> 0, total |-> 0])

NextSession ==
    \/ enable
    \/ wrapPeerConnection
    \/ pcClose
    \/ dataChannelMessage
    \/ \E direction \in Directions : ondataavailable(direction)
    \/ \E i \in DOMAIN sdk.reading : readerOnload(i)
    \/ \E offer \in BOOLEAN : observableFetch(offer)
    \/ \E answer \in BOOLEAN : fetchResolved(answer)
    \/ beforeunload

SpecSession == InitSession /\ [][NextSession]_vars

\* SpecRebase: adjustClusterTimestamps applied once and then again to its
\* result, on the buffers of Buffers and on buffers in which a cluster
\* marker lies inside the size field of another cluster
NestedCluster ==
    ClusterMarker \o <<1>> \o ClusterMarker \o <<129, 231, 129, 231, 129, 5>>

RebaseBuffers ==
    Buffers \cup {p \o NestedCluster \o q :
                      p \in {<<>>, EbmlHeader},
                      q \in {<<9, 9, 9>>, Cluster(7, <<9, 9, 9>>)}}

InitRebase ==
    /\ sessions = <<>>
    /\ sessionObjs = <<>>
    /\ turns = <<>>
    /\ webmInitSegments = <<>>
    /\ timers = <<>>
    /\ starting = <<>>
    /\ drains = <<>>
    /\ files = <<>>
    /\ saves = <<>>
    /\ owner = <<>>
    /\ heard = <<>>
    /\ budget = [session_start |-> 0, event |-> 0, audio |-> 0,
                 session_end |-> 0, total |-> 0]
    /\ last = [msg |-> Internal("init", ""), session |-> Null, turn |-> Null]
    /\ given \in RebaseBuffers
    /\ returned = NoCall
    /\ failures = <<>>
    /\ sdk = SdkLoaded
    /\ globalThis = Browser

NextRebase ==
    \/ CallAdjust
    \/ CallAdjustAgain

SpecRebase == InitRebase /\ [][NextRebase]_vars

\* SpecInt: one call of readVint or writeUint on its own, on every buffer
\* of IntBuffers, at positions before, inside and past the buffer
Vints ==
    {<<129>>, <<255>>, <<64, 5>>, <<127, 255>>, <<32, 1, 2>>,
     <<16, 1, 2, 3>>, <<31, 255, 255, 255>>,
     <<8, 0, 0, 0, 5>>, <<8, 128, 0, 0, 0>>, <<9, 0, 0, 0, 0>>,
     <<4, 0, 0, 0, 0, 7>>, <<2, 0, 0, 1, 0, 0, 0>>,
     <<1, 0, 0, 0, 0, 0, 0, 7>>, <<1, 255, 255, 255, 255, 255, 255, 255>>,
     <<0, 1, 2, 3, 4, 5, 6, 7, 8>>,
     <<64>>, <<1, 255, 255>>, <<>>}

Paddings == {<<>>, <<9>>, <<170, 187, 204>>}

IntBuffers == {p \o v \o q : p \in Paddings, v \in Vints, q \in Paddings}

Positions == (0 - 1)..MaxPos

Widths == 0..8

Numbers ==
    {NumberOf(0), NumberOf(5), NumberOf(300), NumberOf(16777219),
     <<0, 0, 0, 0, 128, 0, 0, 1>>, <<0, 0, 0, 0, 255, 255, 255, 255>>,
     <<0, 0, 0, 1, 0, 0, 0, 0>>, <<0, 31, 255, 255, 255, 255, 255, 254>>,
     <<1, 2, 3, 4, 5, 6, 7, 8>>, NaNNumber}

InitInt ==
    /\ sessions = <<>>
    /\ sessionObjs = <<>>
    /\ turns = <<>>
    /\ webmInitSegments = <<>>
    /\ timers = <<>>
    /\ starting = <<>>
    /\ drains = <<>>
    /\ files = <<>>
    /\ saves = <<>>
    /\ owner = <<>>
    /\ heard = <<>>
    /\ budget = [session_start |-> 0, event |-> 0, audio |-> 0,
                 session_end |-> 0, total |-> 0]
    /\ last = [msg |-> Internal("init", ""), session |-> Null, turn |-> Null]
    /\ given \in IntBuffers
    /\ returned = NoCall
    /\ failures = <<>>
    /\ sdk = SdkLoaded
    /\ globalThis = Browser

CallReadVint(pos) ==
    /\ returned = NoCall
    /\ returned' = [NoCall EXCEPT
                        !.fn = "readVint", !.pos = pos,
                        !.value = readVint(given, pos).value,
                        !.length = readVint(given, pos).length]
    /\ UNCHANGED <<sessions, sessionObjs, turns, webmInitSegments, timers,
                   starting, drains, files, saves, owner, heard, budget,
                   last, given, failures, sdk, globalThis>>

CallWriteUint(pos, value, size) ==
    /\ returned = NoCall
    /\ returned' = [NoCall EXCEPT
                        !.fn = "writeUint", !.pos = pos, !.written = value,
                        !.size = size,
                        !.buffer = writeUint(given, pos, value, size)]
    /\ UNCHANGED <<sessions, sessionObjs, turns, webmInitSegments, timers,
                   starting, drains, files, saves, owner, heard, budget,
                   last, given, failures, sdk, globalThis>>

NextInt ==
    \/ \E pos \in Positions : CallReadVint(pos)
    \/ \E pos \in Positions : \E value \in Numbers : \E size \in Widths :
           CallWriteUint(pos, value, size)

SpecInt == InitInt /\ [][NextInt]_vars

\* SpecLeak: two sessions, the output direction; every message carries the
\* sessionId, and each session sends its own fragment with a header (they
\* differ in their last byte) or the fragment without header
FragmentsOf(id) == IF id = "s1" THEN {"GkXfo4E=", "CQ=="}
                   ELSE {"GkXfo4I=", "CQ=="}

LeakEvents == EventsOf({T_OutStart, T_OutStop}, SessionIds, {<<>>})

LeakAudios ==
    UNION {{AudioMsg(id, "output", f) : f \in FragmentsOf(id)} :
               id \in SessionIds}

\* the state after session_start has been handled for s1 and then for s2
InitLeak ==
    /\ sessions = <<[id |-> "s1", obj |-> 1], [id |-> "s2", obj |-> 2]>>
    /\ sessionObjs = <<NewSession("s1"), NewSession("s2")>>
    /\ turns = <<>>
    /\ webmInitSegments = <<>>
    /\ timers = <<>>
    /\ starting = <<>>
    /\ drains = <<>>
    /\ files = WriteFile(WriteFile(<<>>, SessionJson("s1"), <<>>),
                         SessionJson("s2"), <<>>)
    /\ saves = <<>>
    /\ owner = <<>>
    /\ heard = <<>>
    /\ budget = [session_start |-> 0, event |-> 2 * MaxLeakEvents,
                 audio |-> 2 * MaxLeakAudio, session_end |-> MaxLeakEnds,
                 total |-> MaxLeakMsgs]
    /\ last = [msg |-> Internal("session_start_resume", ""), session |-> 2,
               turn |-> Null]
    /\ given = <<>>
    /\ returned = NoCall
    /\ failures = <<>>
    /\ sdk = SdkLoaded
    /\ globalThis = Browser

\* the clients talk one after the other: the client of s2 sends nothing
\* while s1 is live
Speaking == IF "s1" \in Keys THEN {"s1"} ELSE {"s2"}

\* what the session with this id has been sent so far
EventsSent(id) ==
    IF SessionsGet(id) = Null THEN 0
    ELSE Len(sessionObjs[SessionsGet(id)].events)

AudioSent(id) ==
    Cardinality({i \in DOMAIN heard : heard[i].session # Null
                                        /\ heard[i].session = SessionsGet(id)})

\* a client sends at most MaxLeakEvents events and MaxLeakAudio fragments
MayEvent(e) ==
    e.sessionId \in Speaking /\ EventsSent(e.sessionId) < MaxLeakEvents

MayAudio(m) ==
    m.sessionId \in Speaking /\ AudioSent(m.sessionId) < MaxLeakAudio

NextLeak ==
    \/ \E e \in LeakEvents : MayEvent(e) /\ EventDropped(e)
    \/ \E e \in LeakEvents : MayEvent(e) /\ OutputStarted(e)
    \/ \E e \in LeakEvents : MayEvent(e) /\ OutputStopped(e)
    \/ \E m \in LeakAudios : MayAudio(m) /\ Audio(m)
    \/ \E id \in Speaking : SessionEnd(EndMsg(id))
    \/ \E i \in DOMAIN timers : OutputTimer(i)
    \/ Tick
    \/ \E i \in DOMAIN drains : SessionEndResume(i)
    \/ \E i \in DOMAIN drains : SessionEndFinish(i)

SpecLeak == InitLeak /\ [][NextLeak]_vars

\* SpecFail: one session whose writes may throw; both directions open
\* turns, the input direction has transcripts, audio and its timer
FailEvents ==
    EventsOf({T_InStart, T_InStop, T_OutStart}, {NoId}, {<<>>})
        \cup EventsOf({T_InText}, {NoId}, {<<"a">>})

FailAudios == {AudioMsg(NoId, "input", "GkXfo4E=")}

InitFail ==
    InitWith([session_start |-> 1, event |-> MaxFailEvents, audio |-> 1,
              session_end |-> 1, total |-> MaxFailMsgs])

NextFail ==
    \/ SessionStart("s1")
    \/ \E e \in FailEvents : EventDropped(e)
    \/ \E e \in FailEvents : SpeechStarted(e)
    \/ \E e \in FailEvents : SpeechStopped(e)
    \/ \E e \in FailEvents : TranscriptionCompleted(e)
    \/ \E e \in FailEvents : OutputStarted(e)
    \/ \E m \in FailAudios : Audio(m)
    \/ SessionEnd(EndMsg("s1"))
    \/ \E i \in DOMAIN starting : SessionStartResume(i)
    \/ \E i \in DOMAIN timers : InputTimer(i)
    \/ Tick
    \/ \E i \in DOMAIN drains : SessionEndResume(i)
    \/ \E i \in DOMAIN drains : SessionEndFinish(i)
    \/ \E i \in DOMAIN timers, at \in Range(Artifacts), outcome \in Outcomes :
           InputTimerThrows(i, at, outcome)
    \/ \E at \in Range(Artifacts), outcome \in Outcomes :
           SessionEndThrows(EndMsg("s1"), at, outcome)
    \/ \E i \in DOMAIN drains, at \in Range(Artifacts), outcome \in Outcomes :
           SessionEndResumeThrows(i, at, outcome)

SpecFail == InitFail /\ [][NextFail]_vars

\* SpecText: one session, both directions, transcription events and
\* transcript deltas that carry two different texts, events of a type the
\* handler does not look at, and a fragment that fills the cache
TwoTexts == {<<"a">>, <<"b">>}

TextEvents ==
    EventsOf({T_InStart, T_InStop, T_OutStart, T_OutStop, T_Other},
             {NoId}, {<<>>})
        \cup EventsOf({T_InText, T_OutText}, {NoId}, TwoTexts)

TextAudios == {AudioMsg(NoId, "input", "GkXfo4E=")}

InitText ==
    InitWith([session_start |-> 1, event |-> MaxTextEvents,
              audio |-> MaxTextAudio, session_end |-> 0,
              total |-> MaxTextMsgs])

NextText ==
    \/ SessionStart("s1")
    \/ \E e \in TextEvents : EventDropped(e)
    \/ \E e \in TextEvents : SpeechStarted(e)
    \/ \E e \in TextEvents : SpeechStopped(e)
    \/ \E e \in TextEvents : TranscriptionCompleted(e)
    \/ \E e \in TextEvents : OutputStarted(e)
    \/ \E e \in TextEvents : TranscriptDelta(e)
    \/ \E e \in TextEvents : OutputStopped(e)
    \/ \E e \in TextEvents : OtherEvent(e)
    \/ \E m \in TextAudios : Audio(m)
    \/ \E i \in DOMAIN starting : SessionStartResume(i)
    \/ \E i \in DOMAIN timers : InputTimer(i)
    \/ \E i \in DOMAIN timers : OutputTimer(i)
    \/ Tick

SpecText == InitText /\ [][NextText]_vars

\* SpecSdk: the browser SDK, its enable, disable and isActive called in
\* any order
InitSdk ==
    /\ sessions = <<>>
    /\ sessionObjs = <<>>
    /\ turns = <<>>
    /\ webmInitSegments = <<>>
    /\ timers = <<>>
    /\ starting = <<>>
    /\ drains = <<>>
    /\ files = <<>>
    /\ saves = <<>>
    /\ owner = <<>>
    /\ heard = <<>>
    /\ budget = [session_start |-> 0, event |-> 0, audio |-> 0,
                 session_end |-> 0, total |-> 0]
    /\ last = [msg |-> Internal("init", ""), session |-> Null, turn |-> Null]
    /\ given = <<>>
    /\ returned = NoCall
    /\ failures = <<>>
    /\ sdk = SdkLoaded
    /\ globalThis \in Browsers

NextSdk ==
    \/ enable
    \/ disable
    \/ isActive

SpecSdk == InitSdk /\ [][NextSdk]_vars

\* ------------------------------------------------------------- history
SavesOf(t) == {i \in DOMAIN saves : saves[i].turn = t}
SavesBy(t, by) == {i \in SavesOf(t) : saves[i].by = by}
Saved(t) == SavesOf(t) # {}
Armed(t) == \E i \in DOMAIN timers : timers[i].turn = t
FirstSave(t, by) == CHOOSE i \in SavesBy(t, by) : \A j \in SavesBy(t, by) : i <= j

InCurrentSlot(t) ==
    \/ sessionObjs[owner[t]].currentInputTurn = t
    \/ sessionObjs[owner[t]].currentOutputTurn = t

InPendingSlot(t) ==
    \/ sessionObjs[owner[t]].pendingInputTurn = t
    \/ sessionObjs[owner[t]].pendingOutputTurn = t

\* the turn's 'stopped' event has been handled and the turn is not saved yet
StoppedUnsaved(t) == Armed(t) /\ ~Saved(t)

TurnsOf(o, type) ==
    {t \in DOMAIN turns : owner[t] = o /\ turns[t].type = type}

\* the step handles an event of the given type for session object o
EventStep(o, type) ==
    /\ budget'.event = budget.event - 1
    /\ last'.msg.type = type
    /\ last'.session = o

\* -------------------------------------------------------------- claims

\* C1: for every session and direction at most one turn is current and at
\* most one turn is pending, a turn being pending from the handling of its
\* 'stopped' event until it has been saved.
C1_OneCurrentOnePending ==
    \A o \in DOMAIN sessionObjs : \A type \in Directions :
        /\ Cardinality({t \in TurnsOf(o, type) : InCurrentSlot(t)}) <= 1
        /\ Cardinality({t \in TurnsOf(o, type) : StoppedUnsaved(t)}) <= 1

\* C2: a 'started' event for a direction that has a current turn leaves
\* that turn in the current slot.
C2_StartedKeepsCurrent ==
    [][\A o \in DOMAIN sessionObjs :
          /\ (EventStep(o, T_InStart) /\ sessionObjs[o].currentInputTurn # Null)
                => sessionObjs'[o].currentInputTurn
                       = sessionObjs[o].currentInputTurn
          /\ (EventStep(o, T_OutStart) /\ sessionObjs[o].currentOutputTurn # Null)
                => sessionObjs'[o].currentOutputTurn
                       = sessionObjs[o].currentOutputTurn]_vars

\* C3: within one session the ids of the turns are strictly increasing in
\* the order the turns are opened, across both directions, starting at 1.
C3_TurnIdsIncreasing ==
    \A t \in DOMAIN turns :
        /\ turns[t].id >= 1
        /\ (\A u \in 1..(t - 1) : owner[u] # owner[t]) => turns[t].id = 1
        /\ \A u \in 1..(t - 1) :
               owner[u] = owner[t] => turns[u].id < turns[t].id

C3_Witness ==
    \E t1, t2, t3 \in DOMAIN turns :
        /\ t1 < t2 /\ t2 < t3
        /\ owner[t1] = owner[t2] /\ owner[t2] = owner[t3]
        /\ turns[t1].type # turns[t2].type
        /\ turns[t3].id = 3

C8_DrainSavesAll ==
    [][\A i \in DOMAIN drains :
          (drains[i].pc = 6 /\ drains' = RemoveAt(drains, i)) =>
              LET atEnd == drains[i].atEnd
              IN  /\ \A k \in 1..4 : atEnd[k] # Null => Saved(atEnd[k])
                  /\ \A k1, k2 \in 1..4 :
                         (/\ k1 < k2
                          /\ atEnd[k1] # Null /\ atEnd[k2] # Null
                          /\ SavesBy(atEnd[k1], "drain") # {}
                          /\ SavesBy(atEnd[k2], "drain") # {})
                         => FirstSave(atEnd[k1], "drain")
                                < FirstSave(atEnd[k2], "drain")]_vars


\* C5: once a turn has been saved, no later step changes its fragments or
\* its transcript.
C5_SavedTurnImmutable ==
    [][\A t \in DOMAIN turns : Saved(t) => turns'[t] = turns[t]]_vars

\* C6: for an input turn whose 'stopped' event has been handled and whose
\* session has no current input turn, a transcription-completed event with
\* a text becomes the turn's transcript if it is handled while the turn's
\* grace timer is still armed, and leaves the transcript alone once the
\* timer has fired.
C6_TranscriptWithinGrace ==
    [][\A o \in DOMAIN sessionObjs : \A t \in TurnsOf(o, "input") :
          (EventStep(o, T_InText) /\ last'.msg.text # <<>>) =>
              /\ (Armed(t) /\ sessionObjs[o].currentInputTurn = Null)
                     => turns'[t].transcript = last'.msg.text
              /\ SavesBy(t, "timer") # {}
                     => turns'[t].transcript = turns[t].transcript]_vars

\* the fragments heard so far
HeardData == [i \in DOMAIN heard |-> heard[i].data]

\* the cache entry the audio handler makes of the fragments: the
\* initialization segment of the first one that starts with the header
CacheOf(sessionId, direction, fragments) ==
    LET headed == {i \in DOMAIN fragments :
                       hasEbmlHeader(Base64Decode(fragments[i]))}
    IN  IF headed = {} THEN <<>>
        ELSE LET first == CHOOSE i \in headed : \A j \in headed : i <= j
             IN  WriteFile(<<>>, <<sessionId, direction>>,
                     extractWebmInitSegment(Base64Decode(fragments[first])))

\* the messages so far are: session_start, speech_started, fragments for
\* direction input, speech_stopped, transcription completed, and the turn
\* was saved after the transcription event
C7_Scenario ==
    /\ Len(sessionObjs) = 1
    /\ budget.session_end = 1
    /\ budget.event = MaxDataEvents - 3
    /\ Len(sessionObjs[1].events) = 3
    /\ sessionObjs[1].events[1].type = T_InStart
    /\ sessionObjs[1].events[2].type = T_InStop
    /\ sessionObjs[1].events[3].type = T_InText
    /\ \A i \in DOMAIN heard : heard[i].after = 1
    /\ saves # <<>>
    /\ saves[1].seen = 3

\* C7: after that scenario exactly one turn has been saved, the input turn
\* with id 1; its audio artifact is the repaired concatenation of the
\* fragments in arrival order and its transcript is the text of the event.
C7_EndToEnd ==
    C7_Scenario =>
        LET x == sessionObjs[1].events[3].text
            t == saves[1].turn
            raw == ConcatChunks(HeardData)
            audioPath == <<"s1", 1, "input", "audio.webm">>
            textPath == <<"s1", 1, "input", "transcript.txt">>
        IN  /\ Len(saves) = 1
            /\ turns[t].id = 1
            /\ turns[t].type = "input"
            /\ saves[1].audioChunks = HeardData
            /\ saves[1].transcript = x
            /\ IF heard = <<>> THEN audioPath \notin DOMAIN files
               ELSE /\ audioPath \in DOMAIN files
                    /\ files[audioPath] =
                           makePlayableWebm(CacheOf("s1", "input", HeardData),
                                            "s1", "input", raw).buffer
            /\ IF x = <<>> THEN textPath \notin DOMAIN files
               ELSE textPath \in DOMAIN files /\ files[textPath] = x
            /\ <<"s1", 1, "input", "meta.json">> \in DOMAIN files

C7_Witness ==
    /\ C7_Scenario
    /\ Len(heard) = 2
    /\ heard[1].data # heard[2].data
    /\ saves[1].transcript = <<"a">>
    /\ saves[1].by = "timer"


\* the step handles an event or an audio message
RoutedStep ==
    \/ budget'.event = budget.event - 1
    \/ budget'.audio = budget.audio - 1

\* the live session object created last
NewestLive ==
    CHOOSE o \in {sessions[i].obj : i \in DOMAIN sessions} :
        \A i \in DOMAIN sessions : sessions[i].obj <= o

\* C9: an event or audio message whose sessionId is not in the registry
\* changes neither the sessions (slots, counter, event log), nor the
\* turns, nor the cache, and saves nothing.
C9_UnknownSessionDropped ==
    [][(/\ RoutedStep
        /\ last'.msg.sessionId # NoId
        /\ last'.msg.sessionId \notin Keys)
       => UNCHANGED <<sessions, sessionObjs, turns, webmInitSegments, timers,
                      files, saves, owner>>]_vars

\* an audio fragment with a header for an id that is not live, while the
\* live session has an open input turn
C9_Witness ==
    /\ last.msg.kind = "audio"
    /\ last.msg.sessionId \in SessionIds \ Keys
    /\ \E o \in DOMAIN sessionObjs :
           /\ SessionIdOf(o) # Undefined
           /\ sessionObjs[o].currentInputTurn # Null
    /\ starting = <<>>
    /\ drains = <<>>

\* C10: an event or audio message without sessionId is applied to the live
\* session that was created last and changes no other session; with no
\* live session it is dropped.
C10_RoutedToNewest ==
    [][(RoutedStep /\ last'.msg.sessionId = NoId) =>
          IF sessions = <<>>
          THEN /\ last'.session = Null
               /\ UNCHANGED <<sessionObjs, turns, webmInitSegments>>
          ELSE /\ last'.session = NewestLive
               /\ \A o \in DOMAIN sessionObjs \ {NewestLive} :
                      sessionObjs'[o] = sessionObjs[o]]_vars

\* ------------------------------------------------- claims on the helpers
\* the key makePlayableWebm was called with
CalledKey == <<returned.sessionId, returned.direction>>

\* C11: makePlayableWebm returns the rebased buffer when the buffer starts
\* with the EBML header; the rebased concatenation of the cached segment and
\* the buffer when it has no header and the cache has an entry for the key;
\* and the buffer itself when it has no header and the cache has no entry.
C11_MakePlayableCases ==
    returned.fn = "makePlayableWebm" =>
        returned.buffer =
            IF hasEbmlHeader(given)
            THEN adjustClusterTimestamps(given).buffer
            ELSE IF CalledKey \in DOMAIN returned.cache
            THEN adjustClusterTimestamps(
                     returned.cache[CalledKey] \o given).buffer
            ELSE given

\* a buffer without header was repaired with the cached segment and the
\* rebase rewrote a timecode
C11_Witness ==
    /\ returned.fn = "makePlayableWebm"
    /\ ~hasEbmlHeader(given)
    /\ CalledKey \in DOMAIN returned.cache
    /\ Len(returned.buffer) = Len(returned.cache[CalledKey]) + Len(given)
    /\ returned.buffer # returned.cache[CalledKey] \o given

\* C12: for a buffer that starts with the EBML header the buffer returned by
\* makePlayableWebm starts with it too, whatever the cache holds.
C12_HeaderKept ==
    (returned.fn = "makePlayableWebm" /\ hasEbmlHeader(given)) =>
        /\ hasEbmlHeader(returned.buffer)
        /\ SubSeq(returned.buffer, 1, 4) = SubSeq(given, 1, 4)

\* a buffer with header whose timecodes the rebase rewrote
C12_Witness ==
    /\ returned.fn = "makePlayableWebm"
    /\ hasEbmlHeader(given)
    /\ returned.buffer # given

\* the offsets at which the cluster marker occurs
MarkerAt(bytes) == {i \in 0..(Len(bytes) - 4) : IsClusterAt(bytes, i)}

FirstMarker(bytes) ==
    CHOOSE i \in MarkerAt(bytes) : \A j \in MarkerAt(bytes) : i <= j

\* the Timecode element of the cluster at offset i: where its id is, its
\* size field, its value
TimecodeIdPos(bytes, i) == i + 4 + readVint(bytes, i + 4).length
TimecodeSize(bytes, i) == readVint(bytes, TimecodeIdPos(bytes, i) + 1)
TimecodeOf(bytes, i) ==
    ReadTimecode(bytes,
                 TimecodeIdPos(bytes, i) + 1 + TimecodeSize(bytes, i).length,
                 TimecodeSize(bytes, i).value, 0, 0)

\* every cluster marker is followed by its size field and a Timecode
\* element that lies inside the buffer, and no timecode is smaller than the
\* first one
ClustersCarryTimecodes(bytes) ==
    \A i \in MarkerAt(bytes) :
        /\ i + 4 < Len(bytes)
        /\ At(bytes, TimecodeIdPos(bytes, i)) = 231
        /\ TimecodeSize(bytes, i).value \in 1..4
        /\ TimecodeOf(bytes, i) # NaN
        /\ TimecodeOf(bytes, i) >= TimecodeOf(bytes, FirstMarker(bytes))

\* C13: for a buffer whose clusters carry timecodes t1, t2, ...,
\* adjustClusterTimestamps returns a buffer whose k-th cluster timecode is
\* t_k - t1 (0 for the first, none negative) and the origin t1; origin 0
\* when there is no cluster.
C13_Rebased ==
    (/\ returned.fn = "adjustClusterTimestamps"
     /\ ClustersCarryTimecodes(given)) =>
        IF MarkerAt(given) = {}
        THEN returned.offset = 0 /\ returned.buffer = given
        ELSE LET t1 == TimecodeOf(given, FirstMarker(given))
             IN  /\ returned.offset = t1
                 /\ Len(returned.buffer) = Len(given)
                 /\ \A i \in MarkerAt(given) :
                        /\ TimecodeOf(returned.buffer, i)
                               = TimecodeOf(given, i) - t1
                        /\ TimecodeOf(returned.buffer, i) >= 0

\* C14: extractWebmInitSegment returns the bytes before the first cluster
\* marker, wherever the marker starts (the last four bytes included), and
\* the whole buffer if and only if the marker does not occur.
C14_InitSegment ==
    returned.fn = "extractWebmInitSegment" =>
        /\ returned.buffer =
               IF MarkerAt(given) = {} THEN given
               ELSE SubSeq(given, 1, FirstMarker(given))
        /\ (returned.buffer = given) <=> (MarkerAt(given) = {})

\* ------------------------------------------- claims on the cache and saves
\* the session object has left the registry (SpecData and SpecLeak handle
\* one session_start per id, so it left by the end of its session)
Ended(o) == \A i \in DOMAIN sessions : sessions[i].obj # o

\* C15: once session end has been handled for the session, the cache holds
\* no entry made from its audio, also after its grace timers have fired
\* (SpecData has one session: every entry is made from its audio).
C15_CacheReleased ==
    (\E o \in DOMAIN sessionObjs : Ended(o)) => webmInitSegments = <<>>

\* C16: when saveTurn runs twice for a turn whose fragments and transcript
\* are the same both times, the second run writes the same audio (the
\* transcript and the metadata are those of the turn, hence the same).
C16_SecondSaveSame ==
    \A i, j \in DOMAIN saves :
        (/\ i < j
         /\ saves[i].turn = saves[j].turn
         /\ saves[i].audioChunks = saves[j].audioChunks
         /\ saves[i].transcript = saves[j].transcript)
            => saves[j].audio = saves[i].audio

\* the file is as it was before the step
SameFile(path) ==
    /\ path \in DOMAIN files' <=> path \in DOMAIN files
    /\ path \in DOMAIN files => files'[path] = files[path]

\* C17: a run of saveTurn writes audio.webm if and only if the turn has a
\* fragment, transcript.txt if and only if the transcript is not empty (and
\* then the transcript itself), and always meta.json with the number of
\* fragments and the length of the transcript the turn has at that time.
C17_ArtifactsOfSave ==
    [][Len(saves') = Len(saves) + 1 =>
          LET s == saves'[Len(saves')]
              turn == turns[s.turn]
              dir == sessionObjs[s.session].dir
              audioPath == TurnFile(dir, turn, "audio.webm")
              textPath == TurnFile(dir, turn, "transcript.txt")
              metaPath == TurnFile(dir, turn, "meta.json")
          IN  /\ IF Len(turn.audioChunks) > 0
                 THEN audioPath \in DOMAIN files'
                      /\ files'[audioPath] = s.audio
                 ELSE SameFile(audioPath)
              /\ IF turn.transcript # <<>>
                 THEN textPath \in DOMAIN files'
                      /\ files'[textPath] = turn.transcript
                 ELSE SameFile(textPath)
              /\ metaPath \in DOMAIN files'
              /\ files'[metaPath].audioChunks = Len(turn.audioChunks)
              /\ files'[metaPath].transcriptLength = Len(turn.transcript)]_vars

\* a turn with fragments and no transcript has been saved: audio.webm and
\* meta.json are there, transcript.txt is not
C17_Witness ==
    \E i \in DOMAIN saves :
        LET turn == turns[saves[i].turn]
            dir == sessionObjs[saves[i].session].dir
        IN  /\ saves[i].audioChunks # <<>>
            /\ saves[i].transcript = <<>>
            /\ TurnFile(dir, turn, "audio.webm") \in DOMAIN files
            /\ TurnFile(dir, turn, "meta.json") \in DOMAIN files
            /\ TurnFile(dir, turn, "transcript.txt") \notin DOMAIN files

\* the initialization segments that can be extracted from the audio the
\* session with this id sends
OwnSegments(id) ==
    {extractWebmInitSegment(Base64Decode(f)) :
         f \in {g \in FragmentsOf(id) : hasEbmlHeader(Base64Decode(g))}}

\* C18: the audio saved for a turn is made of the turn's fragments and, if
\* a segment was prepended, of a segment extracted from the audio of the
\* turn's own session, never of a segment of another session.
C18_NoForeignSegment ==
    \A i \in DOMAIN saves :
        LET raw == ConcatChunks(saves[i].audioChunks)
            id == sessionObjs[saves[i].session].dir
        IN  (saves[i].audioChunks # <<>> /\ ~hasEbmlHeader(raw)) =>
                saves[i].audio \in
                    {raw} \cup {adjustClusterTimestamps(seg \o raw).buffer :
                                    seg \in OwnSegments(id)}

\* ------------------------------------------------- claims on failures
\* C19: when saveTurn throws for one of the turns that were in a slot at
\* session end, the handler goes on: unless it is still running, the other
\* turns that were in a slot have been saved and the session has left the
\* registry.
C19_DrainGoesOn ==
    \A n \in DOMAIN failures :
        LET f == failures[n]
        IN  f.by = "drain" =>
                \/ \E i \in DOMAIN drains : drains[i].session = f.session
                \/ /\ Ended(f.session)
                   /\ \A k \in 1..4 :
                          (f.slots[k] # Null /\ f.slots[k] # f.turn)
                              => Saved(f.slots[k])

\* C20: when one of the three writes of a saveTurn invocation throws, the
\* other artifacts the turn has are written all the same, and no file that
\* was there is lost.
C20_FailureIsolated ==
    [][Len(failures') = Len(failures) + 1 =>
          LET f == failures'[Len(failures')]
              turn == turns[f.turn]
              dir == sessionObjs[f.session].dir
              audioPath == TurnFile(dir, turn, "audio.webm")
              textPath == TurnFile(dir, turn, "transcript.txt")
              metaPath == TurnFile(dir, turn, "meta.json")
          IN  /\ f.at # "meta.json" =>
                     /\ metaPath \in DOMAIN files'
                     /\ files'[metaPath] = TurnMeta(turn)
              /\ (f.at # "audio.webm" /\ Len(turn.audioChunks) > 0) =>
                     audioPath \in DOMAIN files'
              /\ (f.at # "transcript.txt" /\ turn.transcript # <<>>) =>
                     /\ textPath \in DOMAIN files'
                     /\ files'[textPath] = turn.transcript
              /\ \A path \in DOMAIN files : path \in DOMAIN files']_vars

\* ---------------------------------------------------- claims on the SDK
\* the function is one of the wrappers enable() installs
IsWrapper(f) == f.wrapper > 0

DataStep(o, type) ==
    \/ /\ budget'.audio = budget.audio - 1
       /\ last'.msg.direction = type
       /\ last'.session = o
    \/ EventStep(o, IF type = "input" THEN T_InText ELSE T_OutText)

CurrentOf(o, type) ==
    IF type = "input" THEN sessionObjs[o].currentInputTurn
    ELSE sessionObjs[o].currentOutputTurn

\* the turn has taken the data of the message handled in the step
Accepted(t) ==
    IF last'.msg.kind = "audio"
    THEN turns'[t].audioChunks = Append(turns[t].audioChunks, last'.msg.data)
    ELSE /\ Len(turns'[t].transcript) >= Len(last'.msg.text)
         /\ SubSeq(turns'[t].transcript,
                   Len(turns'[t].transcript) - Len(last'.msg.text) + 1,
                   Len(turns'[t].transcript)) = last'.msg.text

\* C22: a fragment or transcript event of a direction changes the current
\* turn of that direction if there is one and otherwise a pending turn of
\* that direction (stopped, not saved yet), never more than one turn; and
\* with no current turn, every pending turn of the direction takes the
\* data as long as its timer has not fired.
C22_DataRouting ==
    [][\A o \in DOMAIN sessionObjs : \A type \in Directions :
          DataStep(o, type) =>
              LET changed == {t \in DOMAIN turns : turns'[t] # turns[t]}
                  pending == {t \in TurnsOf(o, type) : StoppedUnsaved(t)}
              IN  /\ Cardinality(changed) <= 1
                  /\ IF CurrentOf(o, type) # Null
                     THEN /\ changed \subseteq {CurrentOf(o, type)}
                          /\ Accepted(CurrentOf(o, type))
                     ELSE /\ changed \subseteq pending
                          /\ \A t \in pending : Accepted(t)]_vars

\* ---------------------------------------------------- timer identity
PendingOf(session, type) ==
    IF type = "input" THEN session.pendingInputTurn
    ELSE session.pendingOutputTurn

\* the step is the firing of a grace timer
TimerStep ==
    /\ Len(timers') = Len(timers) - 1
    /\ last'.msg.kind = "timer"

\* C23: when the grace timer armed for turn A fires, the pending slot of
\* A's direction is emptied if it holds A; if it holds another turn B, B
\* stays in the slot with its own timer still armed; in both cases A is
\* handed to saveTurn by the timer.
C23_TimerIdentity ==
    [][TimerStep =>
          LET o == last'.session
              A == last'.turn
              type == last'.msg.direction
              held == PendingOf(sessionObjs[o], type)
              B == PendingOf(sessionObjs'[o], type)
          IN  /\ turns[A].type = type
              /\ held = A => B = Null
              /\ held # A =>
                    /\ B = held
                    /\ B # Null => \E i \in DOMAIN timers' :
                                       timers'[i].turn = B
              /\ Len(saves') = Len(saves) + 1
              /\ saves'[Len(saves')].turn = A
              /\ saves'[Len(saves')].by = "timer"
              /\ saves'[Len(saves')].audioChunks = turns[A].audioChunks
              /\ saves'[Len(saves')].transcript = turns[A].transcript]_vars

\* the timer of turn A has just fired while the slot held a newer turn B,
\* which is still there
C23_Witness ==
    /\ last.msg.kind = "timer"
    /\ last.turn # Null
    /\ \E type \in Directions :
          /\ last.msg.direction = type
          /\ PendingOf(sessionObjs[last.session], type) # Null
          /\ PendingOf(sessionObjs[last.session], type) > last.turn
          /\ Armed(PendingOf(sessionObjs[last.session], type))
    /\ SavesBy(last.turn, "timer") # {}

\* ------------------------------------------------------- transcripts
\* C24: a transcription-completed event with a text that reaches an input
\* turn is appended to the turn's transcript, and a transcript delta that
\* reaches an output turn is concatenated onto the turn's transcript.
C24_TranscriptAppended ==
    [][\A o \in DOMAIN sessionObjs :
          ((EventStep(o, T_InText) \/ EventStep(o, T_OutText))
              /\ last'.turn # Null /\ last'.msg.text # <<>>) =>
                 turns'[last'.turn].transcript
                     = turns[last'.turn].transcript \o last'.msg.text]_vars

\* --------------------------------------------------------- event log
RecognizedTypes ==
    {T_InStart, T_InStop, T_InText, T_OutStart, T_OutText, T_OutStop}

IsPrefix(a, b) == Len(a) <= Len(b) /\ SubSeq(b, 1, Len(a)) = a

\* C25: an event routed to a live session is appended to the end of the
\* session's event log, no step shortens or reorders a log, and an event
\* of a type outside the six recognized ones leaves the turn counter, the
\* four slots, all turns, the armed timers and the cache as they were.
C25_EventLogged ==
    [][\A o \in DOMAIN sessionObjs :
          /\ IsPrefix(sessionObjs[o].events, sessionObjs'[o].events)
          /\ (budget'.event = budget.event - 1 /\ last'.session = o) =>
                /\ sessionObjs'[o].events
                       = Append(sessionObjs[o].events, last'.msg)
                /\ last'.msg.type \notin RecognizedTypes =>
                      /\ sessionObjs'[o].turnCount = sessionObjs[o].turnCount
                      /\ SlotsOf(sessionObjs'[o]) = SlotsOf(sessionObjs[o])
                      /\ turns' = turns
                      /\ timers' = timers
                      /\ webmInitSegments' = webmInitSegments]_vars

\* an unrecognized event has just been logged in a session that has a
\* turn with a fragment, an armed timer and a cached segment
C25_Witness ==
    /\ last.msg.type = T_Other
    /\ last.session # Null
    /\ sessionObjs[last.session].events # <<>>
    /\ sessionObjs[last.session].events[Len(sessionObjs[last.session].events)]
           = last.msg
    /\ timers # <<>>
    /\ DOMAIN webmInitSegments # {}
    /\ \E t \in DOMAIN turns : turns[t].audioChunks # <<>>

\* ------------------------------------------------ rebasing, per cluster
\* the marker at offset i is followed by a size field and a Timecode
\* element whose value lies inside the buffer
HasTimecode(bytes, i) ==
    /\ i + 4 < Len(bytes)
    /\ At(bytes, TimecodeIdPos(bytes, i)) = 231
    /\ TimecodeSize(bytes, i).value \in 1..4
    /\ TimecodeOf(bytes, i) # NaN

Occurrences(bytes) == {i \in MarkerAt(bytes) : HasTimecode(bytes, i)}

\* the offsets of the bytes that hold the timecode value of the cluster at i
ValueBytes(bytes, i) ==
    LET clusterPos == TimecodeIdPos(bytes, i) + 1
                          + TimecodeSize(bytes, i).length
    IN  clusterPos..(clusterPos + TimecodeSize(bytes, i).value - 1)

\* C26: adjustClusterTimestamps rewrites the timecode of every occurrence
\* of the cluster marker that is followed by a size field and a timecode
\* that fit in the buffer, wherever the marker starts: each becomes its
\* distance from the first one, or 0 if that is negative.
C26_EveryOccurrence ==
    (returned.fn = "adjustClusterTimestamps" /\ Occurrences(given) # {}) =>
        LET first == CHOOSE i \in Occurrences(given) :
                         \A j \in Occurrences(given) : i <= j
            t1 == TimecodeOf(given, first)
        IN  \A i \in Occurrences(given) :
                TimecodeOf(returned.buffer, i)
                    = IF TimecodeOf(given, i) > t1
                      THEN TimecodeOf(given, i) - t1 ELSE 0

C28_VintTotal ==
    returned.fn = "readVint" =>
        /\ returned.pos >= Len(given) =>
               returned.length = 0 /\ returned.value = 0
        /\ At(given, returned.pos) = 0 =>
               returned.length = 1 /\ returned.value = 0
        /\ returned.pos < Len(given) => returned.length \in 1..8

\* readVint was called on a first byte 0x00 that has eight bytes after it
C28_Witness ==
    /\ returned.fn = "readVint"
    /\ At(given, returned.pos) = 0
    /\ returned.pos + 8 < Len(given)
    /\ returned.length = 1
    /\ returned.value = 0

\* the width the first byte announces: its leading zero bits plus one
WidthOf(firstByte) ==
    CHOOSE w \in 1..8 : Pow2(8 - w) <= firstByte /\ firstByte < Pow2(9 - w)

\* the eight base-256 digits of the magnitude of the vint of width w at pos
Magnitude(bytes, pos, w) ==
    [k \in 1..8 |->
        IF k < 9 - w THEN 0
        ELSE IF k = 9 - w THEN At(bytes, pos) % Pow2(8 - w)
        ELSE At(bytes, pos + k - (9 - w))]

\* C29: for a variable-length integer of width w in 1..8 that lies inside
\* the buffer, readVint returns length w and the big-endian magnitude of
\* the first byte's bits below the marker followed by the next w - 1 bytes.
C29_VintValue ==
    (/\ returned.fn = "readVint"
     /\ returned.pos >= 0
     /\ returned.pos < Len(given)
     /\ At(given, returned.pos) > 0
     /\ returned.pos + WidthOf(At(given, returned.pos)) <= Len(given)) =>
        LET w == WidthOf(At(given, returned.pos))
        IN  /\ returned.length = w
            /\ returned.value >= 0
            /\ NumberOf(returned.value) = Magnitude(given, returned.pos, w)

\* C30: writeUint changes no byte outside pos .. pos + size - 1, and for a
\* field inside the buffer and a value below 256^size the size bytes read
\* back as a big-endian number are the value.
C30_UintWritten ==
    returned.fn = "writeUint" =>
        /\ Len(returned.buffer) = Len(given)
        /\ \A k \in 0..(Len(given) - 1) :
               (k < returned.pos \/ k >= returned.pos + returned.size) =>
                   At(returned.buffer, k) = At(given, k)
        /\ (/\ returned.written # NaNNumber
            /\ returned.pos >= 0
            /\ returned.pos + returned.size <= Len(given)
            /\ \A k \in 1..(8 - returned.size) : returned.written[k] = 0) =>
               \A k \in 1..returned.size :
                   At(returned.buffer, returned.pos + k - 1)
                       = returned.written[8 - returned.size + k]

\* a value of more than 32 bits was written into a field inside the buffer
C30_Witness ==
    /\ returned.fn = "writeUint"
    /\ returned.written = <<0, 31, 255, 255, 255, 255, 255, 254>>
    /\ returned.size = 7
    /\ returned.pos = 1
    /\ returned.pos + returned.size < Len(given)
    /\ SubSeq(returned.buffer, 2, 8) = <<31, 255, 255, 255, 255, 255, 254>>
    /\ returned.buffer # given

\* C31: the messages of a session take effect in the order of their
\* arrival: an event or fragment handled after the session_start message of
\* the session is applied to that session (neither dropped nor applied to
\* another session), and one handled after its session_end message is
\* applied to none of its turns.
C31_ArrivalOrder ==
    [][RoutedStep =>
          /\ starting # <<>> =>
                 /\ last'.session # Null
                 /\ SessionIdOf(last'.session) \in Range(starting)
          /\ \A i \in DOMAIN drains : \A t \in DOMAIN turns :
                 owner[t] = drains[i].session => turns'[t] = turns[t]]_vars

\* ------------------------------------------------------ timer firing
IsSuffix(a, b) ==
    Len(a) <= Len(b) /\ SubSeq(b, Len(b) - Len(a) + 1, Len(b)) = a

\* C32: the firing of a grace timer is one step in which no message is
\* handled: the step takes the turn out of the pending slot and writes its
\* artifacts, no turn and no event log changes in it, the audio written
\* ends with exactly the fragments the turn holds when the timer fires, in
\* their order, and the fragment count written to meta.json is their number.
C32_TimerAtomic ==
    [][TimerStep =>
          LET o == last'.session
              A == last'.turn
              type == last'.msg.direction
              dir == sessionObjs[o].dir
              s == saves'[Len(saves')]
              audioPath == TurnFile(dir, turns[A], "audio.webm")
              metaPath == TurnFile(dir, turns[A], "meta.json")
          IN  /\ turns' = turns
              /\ budget' = budget
              /\ \A p \in DOMAIN sessionObjs :
                     sessionObjs'[p].events = sessionObjs[p].events
              /\ PendingOf(sessionObjs'[o], type) # A
              /\ Len(saves') = Len(saves) + 1
              /\ s.turn = A
              /\ s.by = "timer"
              /\ s.audioChunks = turns[A].audioChunks
              /\ s.transcript = turns[A].transcript
              /\ files'[metaPath].audioChunks = Len(turns[A].audioChunks)
              /\ turns[A].audioChunks # <<>> =>
                     /\ audioPath \in DOMAIN files'
                     /\ IsSuffix(ConcatChunks(turns[A].audioChunks),
                                 files'[audioPath])]_vars

\* a timer has just fired for a turn that had taken two fragments, one of them
\* after its 'stopped' event was handled, and the metadata written counts both
C32_Witness ==
    /\ last.msg.kind = "timer"
    /\ last.turn # Null
    /\ Len(turns[last.turn].audioChunks) = 2
    /\ PendingOf(sessionObjs[last.session], "input") = Null
    /\ LET metaPath == TurnFile(sessionObjs[last.session].dir,
                                turns[last.turn], "meta.json")
       IN  metaPath \in DOMAIN files /\ files[metaPath].audioChunks = 2
    /\ Len(turns) = 1
    /\ \E i \in DOMAIN heard : /\ heard[i].session = last.session
                                /\ heard[i].after >= 2
                                /\ sessionObjs[last.session]
                                       .events[heard[i].after].type = T_InStop

\* ------------------------------------------------------------ liveness
\* the session_end message of the turn's session has just been handled
EndReceived(t) ==
    /\ t \in DOMAIN turns
    /\ last.msg.kind = "session_end"
    /\ last.session = owner[t]

\* C33: every turn that has been opened is eventually saved, given that
\* due timers fire and suspended handlers resume, once its 'stopped' event
\* has armed its timer or the session_end message of its session has been
\* handled.
C33_EventuallySaved ==
    \A t \in 1..MaxDataEvents :
        ((t \in DOMAIN turns /\ Armed(t)) \/ EndReceived(t)) ~> Saved(t)

\* ---------------------------------------------------- fragments of a turn
\* the step handles a fragment of the direction for session object o
AudioStep(o, type) ==
    /\ budget'.audio = budget.audio - 1
    /\ last'.session = o
    /\ last'.msg.direction = type

\* the turn is in the current or in the pending slot of its direction
InSlot(t) == InCurrentSlot(t) \/ InPendingSlot(t)

\* the turn the audio handler looks up: the current one, else the pending
TargetOf(o, type) ==
    IF CurrentOf(o, type) # Null THEN CurrentOf(o, type)
    ELSE PendingOf(sessionObjs[o], type)

\* C34 as stated: a turn starts with no fragments, and a step changes the
\* fragments of a turn only by appending the fragment it handles for the
\* turn's session and direction, which it does for every turn of that
\* direction that is in a slot; so a fragment handled with no turn in a
\* slot is in no turn, and a turn holds exactly the fragments handled
\* between its 'started' event and its removal from the slots, in order.
C34_FragmentsWhileInSlot ==
    [][/\ \A t \in DOMAIN turns' \ DOMAIN turns :
             turns'[t].audioChunks = <<>>
       /\ \A t \in DOMAIN turns :
             turns'[t].audioChunks =
                 IF AudioStep(owner[t], turns[t].type) /\ InSlot(t)
                 THEN Append(turns[t].audioChunks, last'.msg.data)
                 ELSE turns[t].audioChunks]_vars

\* C34 amended: the same, the fragment being appended only to the turn in
\* the current slot and, when the current slot is empty, to the turn in
\* the pending slot.
C34_FragmentsWhileTarget ==
    [][/\ \A t \in DOMAIN turns' \ DOMAIN turns :
             turns'[t].audioChunks = <<>>
       /\ \A t \in DOMAIN turns :
             turns'[t].audioChunks =
                 IF /\ AudioStep(owner[t], turns[t].type)
                    /\ TargetOf(owner[t], turns[t].type) = t
                 THEN Append(turns[t].audioChunks, last'.msg.data)
                 ELSE turns[t].audioChunks]_vars

\* a fragment was handled for the session while no turn was in a slot, a
\* later one has just been appended to the current turn while another turn
\* was pending, and the pending turn has none
C34_Witness ==
    /\ last.msg.kind = "audio"
    /\ last.turn # Null
    /\ InCurrentSlot(last.turn)
    /\ turns[last.turn].audioChunks = <<last.msg.data>>
    /\ sessionObjs[last.session].pendingInputTurn # Null
    /\ turns[sessionObjs[last.session].pendingInputTurn].audioChunks = <<>>
    /\ Len(heard) = 2
    /\ heard[1].session = last.session
    /\ heard[1].after = 0

\* --------------------------------------------------- cache while live
\* C35: while the session of a cache entry stays registered, no step
\* removes the entry or changes its value, and an entry that a step adds
\* for a registered session is the initialization segment of the fragment
\* with a header handled in the step or of the turn buffer with a header
\* saved in the step; so the entry is written at most once until session
\* end.
C35_CacheWrittenOnce ==
    [][/\ \A k \in DOMAIN webmInitSegments :
             (k[1] \in Keys /\ k[1] \in Keys') =>
                 /\ k \in DOMAIN webmInitSegments'
                 /\ webmInitSegments'[k] = webmInitSegments[k]
       /\ \A k \in DOMAIN webmInitSegments' \ DOMAIN webmInitSegments :
             k[1] \in Keys =>
                 \/ /\ AudioStep(SessionsGet(k[1]), k[2])
                    /\ hasEbmlHeader(Base64Decode(last'.msg.data))
                    /\ webmInitSegments'[k] =
                           extractWebmInitSegment(Base64Decode(last'.msg.data))
                 \/ /\ Len(saves') = Len(saves) + 1
                    /\ saves'[Len(saves')].sessionId = k[1]
                    /\ hasEbmlHeader(
                           ConcatChunks(saves'[Len(saves')].audioChunks))
                    /\ webmInitSegments'[k] = extractWebmInitSegment(
                           ConcatChunks(saves'[Len(saves')].audioChunks))]_vars

\* the entry was made from a fragment handled with no turn open; a turn
\* that starts with a fragment carrying another header has been saved by
\* its timer; the session is live and the entry is still the first one
C35_Witness ==
    /\ "s1" \in Keys
    /\ Len(heard) >= 2
    /\ heard[1].data = "GkXfo4E="
    /\ heard[1].after = 0
    /\ \E i \in DOMAIN saves :
          /\ saves[i].by = "timer"
          /\ saves[i].sessionId = "s1"
          /\ saves[i].audioChunks = <<"GkXfo4I=">>
    /\ <<"s1", "input">> \in DOMAIN webmInitSegments
    /\ webmInitSegments[<<"s1", "input">>]
           = extractWebmInitSegment(Base64Decode("GkXfo4E="))

ExtentEnd(bytes, i) ==
    IF At(bytes, TimecodeIdPos(bytes, i)) = 231
    THEN TimecodeIdPos(bytes, i) + 1 + TimecodeSize(bytes, i).length
             + TimecodeSize(bytes, i).value
    ELSE TimecodeIdPos(bytes, i) + 1

\* no cluster marker lies between another marker and the end of that
\* cluster's timecode value
Apart(bytes) ==
    \A i, j \in MarkerAt(bytes) : i < j => j >= ExtentEnd(bytes, i)

DirectionOf(m) ==
    IF m.kind = "audio" THEN m.direction
    ELSE IF m.type \in {T_InStart, T_InStop, T_InText} THEN "input"
    ELSE "output"

OtherDirection(type) == IF type = "input" THEN "output" ELSE "input"

CurrentIn(session, type) ==
    IF type = "input" THEN session.currentInputTurn
    ELSE session.currentOutputTurn

\* the step handles a boundary event, a transcript event or a fragment for
\* session object o
FrameStep(o) ==
    /\ RoutedStep
    /\ last'.session = o
    /\ last'.msg.kind = "audio" \/ last'.msg.type \in RecognizedTypes

\* C37: a step that handles a boundary event, a transcript event or a
\* fragment of one direction for a session leaves the current slot, the
\* pending slot and every turn of the other direction of that session as
\* they were, creates turns of that session and direction only, and leaves
\* every other session object (slots, counter, event log), the turns of
\* every other session and the cache entries of every other session id as
\* they were.
C37_Frame ==
    [][\A o \in DOMAIN sessionObjs :
          FrameStep(o) =>
              LET other == OtherDirection(DirectionOf(last'.msg))
              IN  /\ CurrentIn(sessionObjs'[o], other)
                         = CurrentIn(sessionObjs[o], other)
                  /\ PendingOf(sessionObjs'[o], other)
                         = PendingOf(sessionObjs[o], other)
                  /\ \A t \in DOMAIN turns :
                         (owner[t] # o \/ turns[t].type = other) =>
                             turns'[t] = turns[t]
                  /\ \A t \in DOMAIN turns' \ DOMAIN turns :
                         owner'[t] = o /\ turns'[t].type # other
                  /\ \A p \in DOMAIN sessionObjs \ {o} :
                         sessionObjs'[p] = sessionObjs[p]
                  /\ DOMAIN sessionObjs' = DOMAIN sessionObjs
                  /\ \A k \in DOMAIN webmInitSegments
                                \cup DOMAIN webmInitSegments' :
                         k[1] # SessionIdOf(o) =>
                             /\ k \in DOMAIN webmInitSegments
                             /\ k \in DOMAIN webmInitSegments'
                             /\ webmInitSegments'[k] = webmInitSegments[k]]_vars

\* an output transcript delta has just been handled for s1 with no output
\* turn, while s1 has a current input turn, and s2 has a turn and a cache
\* entry of its own
C37_Witness ==
    /\ last.msg.kind = "event"
    /\ last.msg.type = T_OutText
    /\ last.session = 1
    /\ last.turn = Null
    /\ sessionObjs[1].currentInputTurn # Null
    /\ turns[sessionObjs[1].currentInputTurn].transcript = <<>>
    /\ \E t \in DOMAIN turns : owner[t] = 2
    /\ <<"s2", "input">> \in DOMAIN webmInitSegments

\* ------------------------------------------------- stopped, no current
StopTypeOf(type) == IF type = "input" THEN T_InStop ELSE T_OutStop

\* C38: a 'stopped' event handled for a session whose current slot of that
\* direction is empty appends the event to the session's event log and
\* changes nothing else: no slot, no turn, no timer, no file, no cache
\* entry, and it saves nothing; a pending turn of the direction stays in
\* its slot with its timer armed.
C38_StoppedWithoutCurrent ==
    [][\A o \in DOMAIN sessionObjs : \A type \in Directions :
          (EventStep(o, StopTypeOf(type)) /\ CurrentOf(o, type) = Null) =>
              /\ sessionObjs' = [sessionObjs EXCEPT
                                    ![o].events = Append(@, last'.msg)]
              /\ timers' = timers
              /\ turns' = turns
              /\ saves' = saves
              /\ files' = files
              /\ webmInitSegments' = webmInitSegments
              /\ sessions' = sessions
              /\ PendingOf(sessionObjs[o], type) # Null =>
                     (Armed(PendingOf(sessionObjs[o], type)) =>
                          \E i \in DOMAIN timers' :
                              timers'[i].turn
                                  = PendingOf(sessionObjs'[o], type))]_vars

\* a second 'stopped' event of the output direction has just been handled
\* while the turn stopped by the first one is pending with its timer armed
C38_Witness ==
    /\ last.msg.kind = "event"
    /\ last.msg.type = T_OutStop
    /\ last.session # Null
    /\ last.turn = Null
    /\ sessionObjs[last.session].currentOutputTurn = Null
    /\ sessionObjs[last.session].pendingOutputTurn # Null
    /\ Armed(sessionObjs[last.session].pendingOutputTurn)
    /\ Cardinality({i \in DOMAIN timers : timers[i].type = "output"}) = 1
    /\ ~Saved(sessionObjs[last.session].pendingOutputTurn)

\* ------------------------------------------------ browser SDK messages
\* the places in the emitted messages of the given type and session
EmittedAt(type, n) ==
    {i \in DOMAIN sdk.emitted :
        sdk.emitted[i].type = type /\ sdk.emitted[i].session = n}

\* C39: of every session of the browser SDK exactly one session_start is
\* emitted, before every event and audio message captured in the session;
\* at most one session_end is emitted; and no event or audio message
\* captured in the session is emitted after its session_end.
C39_SessionOrder ==
    \A n \in 1..sdk.generated :
        /\ Cardinality(EmittedAt("session_start", n)) = 1
        /\ Cardinality(EmittedAt("session_end", n)) <= 1
        /\ \A j \in EmittedAt("event", n) \cup EmittedAt("audio", n) :
               /\ \A i \in EmittedAt("session_start", n) : i < j
               /\ \A i \in EmittedAt("session_end", n) : j < i

====
